---- MODULE Spec2Model ----
(***************************************************************************)
(* A model of the Flight repository's pure function libraries:            *)
(*   - the DELTA ONE cabinet of DELTA_E6B_FINAL_computer.py (ring index,   *)
(*     mirror, phase, label hashing, geometry score, realm selection);     *)
(*   - the navigation functions the validation script imports              *)
(*     (haversine distance, great-circle course);                          *)
(*   - flight_math/aerodynamics.py.                                        *)
(* Every function is modelled as an operator; a call is an action that     *)
(* records the operation, its arguments and what it returned or raised,    *)
(* and the caller takes the result before it makes the next call.          *)
(*                                                                         *)
(* Python values: a str is the sequence of its character codes (ord), an   *)
(* int is an integer.  A label is a record [t, v, n]: t = "str" with the   *)
(* codes in v, or t = "int" with the number in n.                          *)
(***************************************************************************)
EXTENDS Integers, Sequences, FiniteSets, TLC

VARIABLES
    cabinet,    \* the module globals of DELTA_E6B_FINAL_computer.py
    op,         \* the function called last ("init" before any call)
    args,       \* its arguments
    result      \* what it returned, or the name of the exception it raised

vars == <<cabinet, op, args, result>>

\* ------------------------------------------------------------------ bounds

\* longest string label drawn as an input
MaxLen == 3
\* largest magnitude of an integer drawn as a non-string label or as a
\* distance / speed / altitude / temperature argument
MaxArg == 12
\* how far outside the ring [1, N] an index argument is drawn
RingSlack == 2

\* ------------------------------------------------- cabinet constants

N == 1477
CENTER == 739
STATES == <<1, -1, 0>>

\* the module globals as a dictionary
Globals == [N |-> N, CENTER |-> CENTER, STATES |-> STATES]

\* ------------------------------------------------- Python built-ins

\* ord() of the characters the inputs are drawn from: '0', 'a', U+05C5
\* (1477 = N), U+20AC and the largest code point U+10FFFF
Alphabet == {48, 97, 1477, 8364, 1114111}

RECURSIVE StrNat(_)
\* str(n) for an int n >= 0: its decimal digits, '0' is chr(48)
StrNat(n) == IF n < 10 THEN <<48 + n>> ELSE StrNat(n \div 10) \o <<48 + (n % 10)>>

\* str(n) for an int: '-' is chr(45)
StrInt(n) == IF n < 0 THEN <<45>> \o StrNat(0 - n) ELSE StrNat(n)

\* the labels: a str value and an int value
StrLabel(s) == [t |-> "str", v |-> s, n |-> 0]
IntLabel(i) == [t |-> "int", v |-> <<>>, n |-> i]

\* str(label)
Str(label) == IF label.t = "str" THEN label.v ELSE StrInt(label.n)

\* ------------------------------------------------- cabinet functions

\* what a call yields: the value it returns or the exception it raises
Returned(v) == [raised |-> "none", value |-> v]
Raised(e) == [raised |-> e, value |-> 0]

\* a mirror of the 0-based ring 0..N-1
realm_mirror_zero_based(n) == (N - n) % N

\* a mirror about N / 2 instead of (N + 1) / 2
realm_mirror_off(n) == N - n

\* realm_mirror(n): (N + 1) - n
realm_mirror(n) == (N + 1) - n

\* the phase indexed by n instead of n - 1
realm_phase_shifted(n) == STATES[(n % 3) + 1]

\* realm_phase(n): STATES[(n - 1) % 3]; a Python tuple is indexed from 0, a
\* TLA+ sequence from 1, and % of both gives a result in 0..2 for any n
realm_phase(n) == STATES[((n - 1) % 3) + 1]

\* drawer(n): the dictionary of n, its mirror and its phase
drawer(n) ==
    [number |-> n, mirror |-> (N + 1) - n, phase |-> STATES[((n - 1) % 3) + 1]]

RECURSIVE SumOrd(_, _)
\* the loop of realm_address: s = 0; for ch in label: s += ord(ch)
SumOrd(label, s) ==
    IF label = <<>> THEN s ELSE SumOrd(Tail(label), s + Head(label))

\* the first character is counted twice
realm_address_first_twice(label) ==
    LET text == IF label.t # "str" THEN Str(label) ELSE label.v
    IN  1 + ((SumOrd(text, 0) + (IF text = <<>> THEN 0 ELSE Head(text))) % N)

\* the sum reduced modulo N + 1
realm_address_off(label) ==
    LET text == IF label.t # "str" THEN Str(label) ELSE label.v
    IN  1 + (SumOrd(text, 0) % (N + 1))

\* no coercion: the loop runs over the characters of a str only
realm_address_uncoerced(label) == 1 + (SumOrd(label.v, 0) % N)

\* realm_address(label): a non-str label is replaced by str(label) first
realm_address(label) ==
    LET text == IF label.t # "str" THEN Str(label) ELSE label.v
    IN  1 + (SumOrd(text, 0) % N)

\* desired_phase is <<>> for None and <<p>> for a phase p

\* geometry_score(n, desired_phase), as the integer 400 * CENTER^2 * j^2 for
\* the j the function returns: with s_center = c / CENTER for the integer
\* c = max(0, min(CENTER, CENTER - |n - CENTER|)), s_phase in {0, 1/2, 1} and
\* s_mirror in {0, 1}, j^2 = 0.5 s_center^2 + 0.33 s_phase^2 + 0.17 s_mirror^2
\* is a multiple of 1 / (400 CENTER^2).  j = sqrt(j^2) >= 0 is increasing in
\* j^2, and two different values of j^2 differ by at least 4.5e-9, far above
\* the rounding of a double, so scores compare as these integers compare.
geometry_score(n, desired_phase) ==
    LET d == IF n - CENTER < 0 THEN CENTER - n ELSE n - CENTER
        c == IF CENTER - d < 0 THEN 0
             ELSE IF CENTER - d > CENTER THEN CENTER ELSE CENTER - d
        \* 4 * s_phase^2
        p4 == IF desired_phase = <<>> THEN 1
              ELSE IF realm_phase(n) = desired_phase[1] THEN 4 ELSE 0
        m == IF realm_phase(realm_mirror(n)) # realm_phase(n) THEN 1 ELSE 0
        j2 == 200 * c * c + 33 * p4 * CENTER * CENTER + 68 * m * CENTER * CENTER
    IN  IF j2 < 0 THEN 0
        ELSE IF j2 > 400 * CENTER * CENTER THEN 400 * CENTER * CENTER ELSE j2

\* sys.float_info.max_exp: float(d) raises OverflowError for an integer d
\* that rounds to 2^FLOAT_MAX_EXP or more
FLOAT_MAX_EXP == 1024
\* from this exponent on CENTER is below half an ulp of 2^exponent, so
\* float(abs(sign * 2^exponent - CENTER)) is 2^exponent
LEAST_WIDE_EXP == 64

\* (sign * 2^exponent - 1) % 3, the index of the phase in STATES
WidePhaseIndex(sign, exponent) ==
    LET power == IF exponent % 2 = 0 THEN 1 ELSE 2
    IN  ((IF sign < 0 THEN 3 - power ELSE power) + 2) % 3

\* geometry_score(n, desired_phase) for the integer n = sign * 2^exponent
\* beyond the integers above, on the scale of geometry_score: float(d)
\* overflows or is so large that s_center is clamped to 0.0;
\* realm_mirror(n) - 1 = N - n
geometry_score_wide(sign, exponent, desired_phase) ==
    LET phase == STATES[WidePhaseIndex(sign, exponent) + 1]
        mirror == STATES[(((N % 3) + 3 - ((WidePhaseIndex(sign, exponent) + 1) % 3)) % 3) + 1]
        p4 == IF desired_phase = <<>> THEN 1
              ELSE IF phase = desired_phase[1] THEN 4 ELSE 0
        m == IF mirror # phase THEN 1 ELSE 0
    IN  IF exponent >= FLOAT_MAX_EXP THEN Raised("OverflowError")
        ELSE Returned(33 * p4 * CENTER * CENTER + 68 * m * CENTER * CENTER)

\* the iteration orders of a set: Python leaves the order in which a set is
\* visited to the implementation
Orders(S) ==
    {o \in [1..Cardinality(S) -> S] : \A x \in S : \E i \in DOMAIN o : o[i] = x}

RECURSIVE MaxScoreFrom(_, _, _, _)
\* the loop of max(iterable, key=...): a later element replaces the best one
\* only when its key is strictly greater
MaxScoreFrom(order, i, best, desired_phase) ==
    IF i > Len(order) THEN best
    ELSE MaxScoreFrom(order, i + 1,
            IF geometry_score(order[i], desired_phase)
                   > geometry_score(best, desired_phase)
            THEN order[i] ELSE best,
            desired_phase)

\* max(realm, key=lambda n: geometry_score(n, desired_phase)) when the set
\* is visited in the given order
MaxScore(order, desired_phase) == MaxScoreFrom(order, 2, order[1], desired_phase)

\* the f-string prefixes, as character codes
distance_ == <<100, 105, 115, 116, 97, 110, 99, 101, 95>>
speed_ == <<115, 112, 101, 101, 100, 95>>
altitude_ == <<97, 108, 116, 105, 116, 117, 100, 101, 95>>
temperature_ == <<116, 101, 109, 112, 101, 114, 97, 116, 117, 114, 101, 95>>

\* the realm set of flight_time_realm
flight_realm(distance, speed) ==
    LET distance_anchor == realm_address(StrLabel(distance_ \o StrInt(distance)))
        speed_anchor == realm_address(StrLabel(speed_ \o StrInt(speed)))
    IN  {distance_anchor, realm_mirror(distance_anchor)}
            \cup {speed_anchor, realm_mirror(speed_anchor)}

\* flight_time_realm(distance, speed) when the realm set is visited in the
\* given order.  distance / speed raises ZeroDivisionError for speed = 0,
\* after the drawer is selected.  time_hours is the rational num / den:
\* (distance / speed) * (1 + 0.05 * phase) = distance (20 + phase) / (20 speed)
flight_time_realm(distance, speed, order) ==
    LET best_drawer == MaxScore(order, <<>>)
    IN  IF speed = 0 THEN "ZeroDivisionError"
        ELSE [time_hours |-> [num |-> distance * (20 + realm_phase(best_drawer)),
                              den |-> 20 * speed],
              realm_drawer |-> best_drawer,
              phase |-> realm_phase(best_drawer)]

\* the realm set of density_altitude_realm
atmo_realm(pressure_alt, temp_f) ==
    LET alt_anchor == realm_address(StrLabel(altitude_ \o StrInt(pressure_alt)))
        temp_anchor == realm_address(StrLabel(temperature_ \o StrInt(temp_f)))
    IN  {alt_anchor, realm_mirror(alt_anchor)}
            \cup {temp_anchor, realm_mirror(temp_anchor)}

\* density_altitude_realm(pressure_alt, temp_f) when the realm set is visited
\* in the given order.  density_altitude is the rational num / 250000:
\* standard_temp = 15 - pressure_alt / 500, so 5000 * base_density_alt =
\* 6188 pressure_alt + 594000 (temp_f - 15), and 1 + 0.02 phase = (50 + phase) / 50
density_altitude_realm(pressure_alt, temp_f, order) ==
    LET center_drawer == MaxScore(order, <<>>)
        base5000 == 6188 * pressure_alt + 594000 * (temp_f - 15)
    IN  [density_altitude |-> [num |-> base5000 * (50 + realm_phase(center_drawer)),
                               den |-> 250000],
         realm_drawer |-> center_drawer,
         phase |-> realm_phase(center_drawer)]

\* ------------------------------------------------- inputs

RECURSIVE StringsOf(_)
\* the strings over Alphabet of length at most k
StringsOf(k) ==
    IF k = 0 THEN {<<>>}
    ELSE LET shorter == StringsOf(k - 1)
         IN  shorter \cup {Append(s, c) : s \in shorter, c \in Alphabet}

SmallInts == (0 - MaxArg)..MaxArg
Labels == {StrLabel(s) : s \in StringsOf(MaxLen)} \cup {IntLabel(i) : i \in SmallInts}
Indices == (1 - RingSlack)..(N + RingSlack)
Phases == {<<>>, <<1>>, <<-1>>, <<0>>}
\* the exponents of the integers sign * 2^exponent far outside the ring
WideExponents == {LEAST_WIDE_EXP, LEAST_WIDE_EXP + 1, FLOAT_MAX_EXP - 1, FLOAT_MAX_EXP,
                  FLOAT_MAX_EXP + 1}

\* ------------------------------------------------- calls of the cabinet

Init ==
    /\ cabinet = Globals
    /\ op = "idle"
    /\ args = <<>>
    /\ result = 0

\* a call of f with the arguments a returns (or raises) r; no function of the
\* repository assigns a module global
Returns(f, a, r) ==
    /\ op' = f
    /\ args' = a
    /\ result' = r
    /\ UNCHANGED cabinet

\* no call is in progress: the functions are synchronous and single-threaded
Idle == op = "idle"

\* the caller takes the result; the next call can follow
TakeResult ==
    /\ op # "idle"
    /\ op' = "idle"
    /\ args' = <<>>
    /\ result' = 0
    /\ UNCHANGED cabinet

CallRealmAddress == Idle /\ \E label \in Labels :
    Returns("realm_address", <<label>>, realm_address(label))

CallRealmMirror == Idle /\ \E n \in Indices :
    Returns("realm_mirror", <<n>>, realm_mirror(n))

CallRealmPhase == Idle /\ \E n \in Indices :
    Returns("realm_phase", <<n>>, realm_phase(n))

CallDrawer == Idle /\ \E n \in Indices :
    Returns("drawer", <<n>>, drawer(n))

\* a wide integer is passed as its sign and its exponent
CallGeometryScore == Idle /\ \E desired_phase \in Phases :
    \/ \E n \in Indices :
        Returns("geometry_score", <<n, desired_phase>>,
                Returned(geometry_score(n, desired_phase)))
    \/ \E sign \in {-1, 1}, exponent \in WideExponents :
        Returns("geometry_score", <<sign, desired_phase, exponent>>,
                geometry_score_wide(sign, exponent, desired_phase))

CallFlightTime == Idle /\ \E distance \in SmallInts, speed \in SmallInts :
    \E order \in Orders(flight_realm(distance, speed)) :
        Returns("flight_time_realm", <<distance, speed>>,
                flight_time_realm(distance, speed, order))

CallDensityAltitude == Idle /\ \E pressure_alt \in SmallInts, temp_f \in SmallInts :
    \E order \in Orders(atmo_realm(pressure_alt, temp_f)) :
        Returns("density_altitude_realm", <<pressure_alt, temp_f>>,
                density_altitude_realm(pressure_alt, temp_f, order))

Next ==
    \/ CallRealmAddress
    \/ CallRealmMirror
    \/ CallRealmPhase
    \/ CallDrawer
    \/ CallGeometryScore
    \/ CallFlightTime
    \/ CallDensityAltitude
    \/ TakeResult

Spec == Init /\ [][Next]_vars

\* ------------------------------------------------- navigation functions
\* haversine_distance and great_circle_course are imported by the validation
\* script from DELTA_E6B_ENHANCED_v2, which the repository does not contain;
\* they are modelled from the specification (sections 4.3, 4.4 and 7).
\* Angles are whole degrees; sines, cosines and haversines are fixed-point
\* integers in units of 1 / SCALE; a distance is in hundredths of a nautical
\* mile.  A coordinate is [k, d]: k = "num" with d degrees, or k = "nan",
\* "inf", "-inf" for the non-finite floats.

SCALE == 10000

\* round(SCALE * sin(d degrees)) for d = 0..90
SinTable == <<
    0, 175, 349, 523, 698, 872, 1045, 1219, 1392, 1564,
    1736, 1908, 2079, 2250, 2419, 2588, 2756, 2924, 3090, 3256,
    3420, 3584, 3746, 3907, 4067, 4226, 4384, 4540, 4695, 4848,
    5000, 5150, 5299, 5446, 5592, 5736, 5878, 6018, 6157, 6293,
    6428, 6561, 6691, 6820, 6947, 7071, 7193, 7314, 7431, 7547,
    7660, 7771, 7880, 7986, 8090, 8192, 8290, 8387, 8480, 8572,
    8660, 8746, 8829, 8910, 8988, 9063, 9135, 9205, 9272, 9336,
    9397, 9455, 9511, 9563, 9613, 9659, 9703, 9744, 9781, 9816,
    9848, 9877, 9903, 9925, 9945, 9962, 9976, 9986, 9994, 9998,
    10000 >>

\* SCALE * sin of any whole number of degrees, by the symmetries of the sine
Sin(deg) ==
    LET r == deg % 360
    IN  IF r <= 90 THEN SinTable[r + 1]
        ELSE IF r <= 180 THEN SinTable[(180 - r) + 1]
        ELSE IF r <= 270 THEN 0 - SinTable[(r - 180) + 1]
        ELSE 0 - SinTable[(360 - r) + 1]

Cos(deg) == Sin(deg + 90)

\* SCALE * 2 * hav(deg), hav(x) = sin^2(x / 2) = (1 - cos x) / 2
Hav2(deg) == SCALE - Cos(deg)

Abs(x) == IF x < 0 THEN 0 - x ELSE x

RECURSIVE LeastCosAtMost(_, _, _)
\* the least angle t in lo..hi with Cos(t) <= x, by bisection: the cosine
\* decreases on 0..180 and Cos(hi) <= x
LeastCosAtMost(x, lo, hi) ==
    IF lo = hi THEN lo
    ELSE LET mid == (lo + hi) \div 2
         IN  IF Cos(mid) <= x THEN LeastCosAtMost(x, lo, mid)
             ELSE LeastCosAtMost(x, mid + 1, hi)

\* the angle in 0..180 degrees whose cosine is nearest to x / SCALE
ArcCos(x) ==
    LET c == IF x > SCALE THEN SCALE ELSE IF x < 0 - SCALE THEN 0 - SCALE ELSE x
        t == LeastCosAtMost(c, 0, 180)
    IN  IF t > 0 /\ Abs(Cos(t - 1) - c) <= Abs(Cos(t) - c) THEN t - 1 ELSE t

\* the cross product of (x, y) with the unit vector of direction t; for
\* x, y >= 0 it decreases from y at t = 0 to -x at t = 90
Cross(y, x, t) == y * Cos(t) - x * Sin(t)

RECURSIVE LeastCrossAtMostZero(_, _, _, _)
\* the least angle t in lo..hi with Cross(y, x, t) <= 0, by bisection
LeastCrossAtMostZero(y, x, lo, hi) ==
    IF lo = hi THEN lo
    ELSE LET mid == (lo + hi) \div 2
         IN  IF Cross(y, x, mid) <= 0 THEN LeastCrossAtMostZero(y, x, lo, mid)
             ELSE LeastCrossAtMostZero(y, x, mid + 1, hi)

\* the angle in 0..90 degrees nearest to the direction of (x, y), x, y >= 0
QuadrantAngle(y, x) ==
    LET t == LeastCrossAtMostZero(y, x, 0, 90)
    IN  IF t > 0 /\ Abs(Cross(y, x, t - 1)) <= Abs(Cross(y, x, t)) THEN t - 1 ELSE t

\* atan2(y, x) in whole degrees, in -180..180; atan2(0, 0) is 0
Atan2(y, x) ==
    IF x = 0 /\ y = 0 THEN 0
    ELSE LET t == QuadrantAngle(Abs(y), Abs(x))
         IN  IF x >= 0 THEN (IF y >= 0 THEN t ELSE 0 - t)
             ELSE (IF y >= 0 THEN 180 - t ELSE t - 180)

Num(d) == [k |-> "num", d |-> d]
NonFinite == {[k |-> "nan", d |-> 0], [k |-> "inf", d |-> 0], [k |-> "-inf", d |-> 0]}

\* only a latitude above 90 is rejected
ValidPointNorthOnly(lat, lon) ==
    /\ lat.k = "num"
    /\ lon.k = "num"
    /\ lat.d <= 90

\* section 7: a non-finite coordinate or a latitude outside [-90, 90] is
\* rejected; every other input is computed
ValidPoint(lat, lon) ==
    /\ lat.k = "num"
    /\ lon.k = "num"
    /\ Abs(lat.d) <= 90

\* the great-circle distance per degree of central angle, in hundredths of a
\* nautical mile: 100 * EARTH_RADIUS_NM * pi / 180 with EARTH_RADIUS_NM = 3440.1
NM_PER_DEGREE == 6004

\* the sum lat1 + lat2 where the difference lat2 - lat1 belongs
HaversineSumOfLatitudes(lat1, lon1, lat2, lon2) ==
    LET dlat == lat2 + lat1
        dlon == lon2 - lon1
        a2 == Hav2(dlat) + (((Cos(lat1) * Cos(lat2)) \div SCALE) * Hav2(dlon)) \div SCALE
    IN  ArcCos(SCALE - a2) * NM_PER_DEGREE

\* section 4.3: a = hav(dlat) + cos(lat1) cos(lat2) hav(dlon), the central
\* angle c = 2 atan2(sqrt(a), sqrt(1 - a)) is the angle with cos c = 1 - 2a,
\* and the distance is EARTH_RADIUS_NM * c
Haversine(lat1, lon1, lat2, lon2) ==
    LET dlat == lat2 - lat1
        dlon == lon2 - lon1
        a2 == Hav2(dlat) + (((Cos(lat1) * Cos(lat2)) \div SCALE) * Hav2(dlon)) \div SCALE
    IN  ArcCos(SCALE - a2) * NM_PER_DEGREE

\* the bearing left as atan2 returns it, in [-180, 180]
BearingUnnormalized(lat1, lon1, lat2, lon2) ==
    LET dlon == lon2 - lon1
        y == (Sin(dlon) * Cos(lat2)) \div SCALE
        x == (Cos(lat1) * Sin(lat2)) \div SCALE
             - (((Sin(lat1) * Cos(lat2)) \div SCALE) * Cos(dlon)) \div SCALE
    IN  Atan2(y, x)

\* section 4.4: the standard spherical bearing formula,
\* atan2(sin dlon cos lat2, cos lat1 sin lat2 - sin lat1 cos lat2 cos dlon),
\* normalized to [0, 360)
Bearing(lat1, lon1, lat2, lon2) ==
    LET dlon == lon2 - lon1
        y == (Sin(dlon) * Cos(lat2)) \div SCALE
        x == (Cos(lat1) * Sin(lat2)) \div SCALE
             - (((Sin(lat1) * Cos(lat2)) \div SCALE) * Cos(dlon)) \div SCALE
    IN  (Atan2(y, x) + 360) % 360

\* the validation both navigation functions apply to both points
ValidPoints(lat1, lon1, lat2, lon2) ==
    ValidPoint(lat1, lon1) /\ ValidPoint(lat2, lon2)

haversine_distance(lat1, lon1, lat2, lon2) ==
    IF ~ValidPoints(lat1, lon1, lat2, lon2) THEN Raised("ValidationError")
    ELSE Returned(Haversine(lat1.d, lon1.d, lat2.d, lon2.d))

great_circle_course(lat1, lon1, lat2, lon2) ==
    IF ~ValidPoints(lat1, lon1, lat2, lon2) THEN Raised("ValidationError")
    ELSE Returned(Bearing(lat1.d, lon1.d, lat2.d, lon2.d))

\* how many grid steps the drawn latitudes and longitudes take to the pole
\* and to the antimeridian
MaxGrid == 3

Latitudes ==
    {Num((90 * k) \div MaxGrid) : k \in (0 - MaxGrid)..MaxGrid}
        \cup {Num(-91), Num(120)} \cup NonFinite
Longitudes ==
    {Num((180 * k) \div MaxGrid) : k \in (0 - MaxGrid)..MaxGrid} \cup NonFinite

CallHaversine == Idle /\ \E lat1 \in Latitudes, lon1 \in Longitudes,
                            lat2 \in Latitudes, lon2 \in Longitudes :
    Returns("haversine_distance", <<lat1, lon1, lat2, lon2>>,
            haversine_distance(lat1, lon1, lat2, lon2))

CallGreatCircleCourse == Idle /\ \E lat1 \in Latitudes, lon1 \in Longitudes,
                                    lat2 \in Latitudes, lon2 \in Longitudes :
    Returns("great_circle_course", <<lat1, lon1, lat2, lon2>>,
            great_circle_course(lat1, lon1, lat2, lon2))

NavNext ==
    \/ CallHaversine
    \/ CallGreatCircleCourse
    \/ TakeResult

SpecNav == Init /\ [][NavNext]_vars

\* ------------------------------------------------- flight_math.aerodynamics
\* The arguments are drawn from the integers; a force is recorded as twice
\* its value, so that 0.5 * rho * V^2 * S * C stays an integer, and a ratio
\* as the pair of its numerator and denominator.

\* the area is rejected only when negative
calculate_lift_zero_area(air_density, velocity, wing_area, lift_coefficient) ==
    IF air_density < 0 THEN Raised("ValueError")
    ELSE IF velocity < 0 THEN Raised("ValueError")
    ELSE IF wing_area < 0 THEN Raised("ValueError")
    ELSE Returned(air_density * velocity * velocity * wing_area * lift_coefficient)

calculate_lift(air_density, velocity, wing_area, lift_coefficient) ==
    IF air_density < 0 THEN Raised("ValueError")
    ELSE IF velocity < 0 THEN Raised("ValueError")
    ELSE IF wing_area <= 0 THEN Raised("ValueError")
    ELSE Returned(air_density * velocity * velocity * wing_area * lift_coefficient)

calculate_drag(air_density, velocity, reference_area, drag_coefficient) ==
    IF air_density < 0 THEN Raised("ValueError")
    ELSE IF velocity < 0 THEN Raised("ValueError")
    ELSE IF reference_area <= 0 THEN Raised("ValueError")
    ELSE Returned(air_density * velocity * velocity * reference_area * drag_coefficient)

\* lift / drag; Python raises ZeroDivisionError for a zero divisor
Divide(num, den) ==
    IF den = 0 THEN Raised("ZeroDivisionError")
    ELSE Returned([num |-> num, den |-> den])

lift_to_drag_ratio(lift, drag) ==
    IF drag = 0 THEN Raised("ValueError") ELSE Divide(lift, drag)

\* largest magnitude of an argument drawn for the aerodynamics functions
MaxAero == 2

AeroValues == (0 - MaxAero)..MaxAero

CallCalculateLift ==
    Idle /\ \E air_density \in AeroValues, velocity \in AeroValues,
               wing_area \in AeroValues, lift_coefficient \in AeroValues :
        Returns("calculate_lift",
                <<air_density, velocity, wing_area, lift_coefficient>>,
                calculate_lift(air_density, velocity, wing_area, lift_coefficient))

CallCalculateDrag ==
    Idle /\ \E air_density \in AeroValues, velocity \in AeroValues,
               reference_area \in AeroValues, drag_coefficient \in AeroValues :
        Returns("calculate_drag",
                <<air_density, velocity, reference_area, drag_coefficient>>,
                calculate_drag(air_density, velocity, reference_area, drag_coefficient))

CallLiftToDragRatio ==
    Idle /\ \E lift \in AeroValues, drag \in AeroValues :
        Returns("lift_to_drag_ratio", <<lift, drag>>, lift_to_drag_ratio(lift, drag))

AeroNext ==
    \/ CallCalculateLift
    \/ CallCalculateDrag
    \/ CallLiftToDragRatio
    \/ TakeResult

SpecAero == Init /\ [][AeroNext]_vars

\* --------------------------------------------- flight_math.flight_dynamics
\* A float is a record: an ordinary value v in the unit of its parameter, or
\* one of the binary64 values outside the ordinary range
Fin(v) == [k |-> "fin", v |-> v]
\* 5e-324, the least positive float: math.radians of it is 0.0
TINY == [k |-> "tiny", v |-> 0]
\* 1e200, a finite float whose square is out of range
HUGE == [k |-> "huge", v |-> 0]
NAN == [k |-> "nan", v |-> 0]
INF == [k |-> "inf", v |-> 0]
NEG_INF == [k |-> "-inf", v |-> 0]

\* the comparisons x < 0, x == 0, x <= 0 and x >= c (c > 0) as Python
\* evaluates them: every comparison with NaN is False
Lt0(x) == (x.k = "fin" /\ x.v < 0) \/ x.k = "-inf"
Eq0(x) == x.k = "fin" /\ x.v = 0
Le0(x) == (x.k = "fin" /\ x.v <= 0) \/ x.k = "-inf"
Ge(x, c) == (x.k = "fin" /\ x.v >= c) \/ x.k = "huge"

RECURSIVE MulDivQR(_, _, _)
\* <<q, r>> with a * b = q * c + r and 0 <= r < c, for a, b >= 0 < c, by
\* doubling over the bits of b so that no intermediate leaves 32 bits
MulDivQR(a, b, c) ==
    IF b = 0 THEN <<0, 0>>
    ELSE LET h == MulDivQR(a, b \div 2, c)
             r2 == 2 * h[2] + (b % 2) * (a % c)
         IN  <<2 * h[1] + (b % 2) * (a \div c) + r2 \div c, r2 % c>>

\* a * b / c rounded to the nearest integer, for a, b >= 0 < c
MulDivRound(a, b, c) ==
    CASE a >= 0 /\ b >= 0 /\ c > 0 ->
        LET qr == MulDivQR(a, b, c)
        IN  qr[1] + (IF 2 * qr[2] >= c THEN 1 ELSE 0)

\* GRAVITY = 9.80665 in units of 1 / GRAVITY_SCALE
GRAVITY == 980665
GRAVITY_SCALE == 100000

\* TAN_SCALE * tan of 0..89 whole degrees
TAN_SCALE == 1000000
TanTable == <<
    0, 17455, 34921, 52408, 69927, 87489,
    105104, 122785, 140541, 158384, 176327, 194380,
    212557, 230868, 249328, 267949, 286745, 305731,
    324920, 344328, 363970, 383864, 404026, 424475,
    445229, 466308, 487733, 509525, 531709, 554309,
    577350, 600861, 624869, 649408, 674509, 700208,
    726543, 753554, 781286, 809784, 839100, 869287,
    900404, 932515, 965689, 1000000, 1035530, 1072369,
    1110613, 1150368, 1191754, 1234897, 1279942, 1327045,
    1376382, 1428148, 1482561, 1539865, 1600335, 1664279,
    1732051, 1804048, 1880726, 1962611, 2050304, 2144507,
    2246037, 2355852, 2475087, 2605089, 2747477, 2904211,
    3077684, 3270853, 3487414, 3732051, 4010781, 4331476,
    4704630, 5144554, 5671282, 6313752, 7115370, 8144346,
    9514364, 11430052, 14300666, 19081137, 28636253, 57289962 >>

\* math.tan(math.radians(deg)) for deg in 0..89, times TAN_SCALE
Tan(deg) == TanTable[deg + 1]

RECURSIVE GreatestTanAtMost(_, _, _)
\* the greatest whole degree t in lo..hi with Tan(t) <= x, by bisection;
\* Tan(lo) <= x
GreatestTanAtMost(x, lo, hi) ==
    IF lo = hi THEN lo
    ELSE LET mid == (lo + hi + 1) \div 2
         IN  IF Tan(mid) <= x THEN GreatestTanAtMost(x, mid, hi)
             ELSE GreatestTanAtMost(x, lo, mid - 1)

\* thousandths of a degree in a degree
MILLI == 1000

\* math.degrees(math.atan(x / TAN_SCALE)) in thousandths of a degree, x >= 0:
\* linear between the whole degrees of the table
AtanMilli(x) ==
    LET t == GreatestTanAtMost(x, 0, 88)
    IN  t * MILLI + MulDivRound(x - Tan(t), MILLI, Tan(t + 1) - Tan(t))

\* a / b for floats a and b; the quotient of two ordinary values is kept as
\* the pair <<a, b>>
FloatDivide(a, b) ==
    IF Eq0(b) THEN Raised("ZeroDivisionError")
    ELSE IF a.k = "nan" \/ b.k = "nan" THEN Returned(NAN)
    ELSE IF b.k = "tiny"
         THEN Returned(IF a.v = 0 THEN Fin(<<0, 1>>) ELSE IF a.v > 0 THEN INF ELSE NEG_INF)
    ELSE Returned(Fin(<<a.v, b.v>>))

thrust_to_weight_ratio(thrust, weight) ==
    IF Eq0(weight) THEN Raised("ValueError")
    ELSE IF Lt0(thrust) THEN Raised("ValueError")
    ELSE IF Lt0(weight) THEN Raised("ValueError")
    ELSE FloatDivide(thrust, weight)

rate_of_climb(excess_power, weight) ==
    IF Eq0(weight) THEN Raised("ValueError")
    ELSE IF Lt0(weight) THEN Raised("ValueError")
    ELSE FloatDivide(excess_power, weight)

\* velocity in m/s, bank_angle_deg in whole degrees; the radius in millimetres
turn_radius(velocity, bank_angle_deg) ==
    IF Lt0(velocity) THEN Raised("ValueError")
    ELSE IF Le0(bank_angle_deg) \/ Ge(bank_angle_deg, 90) THEN Raised("ValueError")
    ELSE IF velocity.k = "huge" THEN Raised("OverflowError")
    ELSE IF bank_angle_deg.k = "tiny" THEN Raised("ZeroDivisionError")
    ELSE IF velocity.k = "nan" \/ bank_angle_deg.k = "nan" THEN Returned(NAN)
    ELSE LET gtan == MulDivRound(GRAVITY, Tan(bank_angle_deg.v), GRAVITY_SCALE)
         IN  Returned(Fin(MulDivRound(velocity.v * velocity.v * MILLI, TAN_SCALE, gtan)))

\* the ratio velocity ** 2 / turn_radius_m without GRAVITY
bank_angle_without_gravity(velocity, turn_radius_m) ==
    IF Lt0(velocity) THEN Raised("ValueError")
    ELSE IF Le0(turn_radius_m) THEN Raised("ValueError")
    ELSE IF velocity.k = "huge" THEN Raised("OverflowError")
    ELSE IF velocity.k = "nan" \/ turn_radius_m.k = "nan" THEN Returned(NAN)
    ELSE IF turn_radius_m.k = "tiny"
         THEN Returned(Fin(IF velocity.v = 0 THEN 0 ELSE 90 * MILLI))
    ELSE Returned(Fin(AtanMilli(
             MulDivRound(velocity.v * velocity.v * MILLI, TAN_SCALE, turn_radius_m.v))))

\* velocity in m/s, turn_radius_m in millimetres; the angle in thousandths of
\* a degree
bank_angle(velocity, turn_radius_m) ==
    IF Lt0(velocity) THEN Raised("ValueError")
    ELSE IF Le0(turn_radius_m) THEN Raised("ValueError")
    ELSE IF velocity.k = "huge" THEN Raised("OverflowError")
    ELSE IF velocity.k = "nan" \/ turn_radius_m.k = "nan" THEN Returned(NAN)
    ELSE IF turn_radius_m.k = "tiny"
         THEN Returned(Fin(IF velocity.v = 0 THEN 0 ELSE 90 * MILLI))
    ELSE LET v2g == MulDivRound(velocity.v * velocity.v * MILLI, GRAVITY_SCALE, GRAVITY)
         IN  Returned(Fin(AtanMilli(MulDivRound(v2g, TAN_SCALE, turn_radius_m.v))))

\* radius = turn_radius(velocity, bank_deg); bank_angle(velocity, radius)
turn_radius_and_bank_angle_inverse(velocity, bank_deg) ==
    LET radius == turn_radius(velocity, bank_deg)
    IN  IF radius.raised # "none" THEN radius
        ELSE bank_angle(velocity, radius.value)

\* the drawn velocities are the multiples of VelocityStep up to
\* MaxVelocitySteps of them; the drawn forces and powers are -MaxForce..MaxForce
VelocityStep == 10
MaxVelocitySteps == 10
MaxForce == 3

Velocities == {Fin(VelocityStep * s) : s \in (0 - 1)..MaxVelocitySteps} \cup {HUGE, NAN}
BankAngles == {Fin(d) : d \in (0 - 1)..91} \cup {TINY, NAN}
\* 436.78 and 441.55 m of the documentation and the tests, in millimetres
Radii == {Fin(r) : r \in {0 - 1000, 0, 200000, 436780, 441550, 500000}} \cup {TINY, NAN}
Forces == {Fin(f) : f \in (0 - MaxForce)..MaxForce} \cup {NAN}
Weights == Forces \cup {TINY}

CallThrustToWeightRatio ==
    Idle /\ \E thrust \in Forces, weight \in Weights :
        Returns("thrust_to_weight_ratio", <<thrust, weight>>,
                thrust_to_weight_ratio(thrust, weight))

CallRateOfClimb ==
    Idle /\ \E excess_power \in Forces, weight \in Weights :
        Returns("rate_of_climb", <<excess_power, weight>>,
                rate_of_climb(excess_power, weight))

CallTurnRadius ==
    Idle /\ \E velocity \in Velocities, bank_angle_deg \in BankAngles :
        Returns("turn_radius", <<velocity, bank_angle_deg>>,
                turn_radius(velocity, bank_angle_deg))

CallBankAngle ==
    Idle /\ \E velocity \in Velocities, turn_radius_m \in Radii :
        Returns("bank_angle", <<velocity, turn_radius_m>>,
                bank_angle(velocity, turn_radius_m))

CallTurnRadiusAndBankAngleInverse ==
    Idle /\ \E velocity \in Velocities, bank_deg \in BankAngles :
        Returns("turn_radius_and_bank_angle_inverse", <<velocity, bank_deg>>,
                turn_radius_and_bank_angle_inverse(velocity, bank_deg))

DynNext ==
    \/ CallThrustToWeightRatio
    \/ CallRateOfClimb
    \/ CallTurnRadius
    \/ CallBankAngle
    \/ CallTurnRadiusAndBankAngleInverse
    \/ TakeResult

SpecDyn == Init /\ [][DynNext]_vars

\* -------------------------------------------------- flight_math.atmosphere
\* altitudes in decimetres, temperatures in 1e-5 K, pressures in 1e-3 Pa,
\* densities in 1e-6 kg/m^3, GAS_CONSTANT in 1e-2 J/(kg K)
SEA_LEVEL_TEMPERATURE == 28815000
SEA_LEVEL_PRESSURE == 101325000
SEA_LEVEL_DENSITY == 1225000
\* 0.0065 K/m, in 1e-5 K per decimetre
TEMPERATURE_LAPSE_RATE == 65
GAS_CONSTANT == 28705
TROPOSPHERE_HEIGHT == 110000
\* one metre
METRE == 10

\* the unit of the fixed-point fractions of the power and the exponential
FIX == 100000000

RECURSIVE AtanhTerms(_, _, _, _)
\* sum of power / n + power z^2 / (n + 2) + ... until the terms vanish
AtanhTerms(power, z2, n, sum) ==
    IF power = 0 THEN sum
    ELSE AtanhTerms(MulDivRound(power, z2, FIX), z2, n + 2, sum + power \div n)

\* -FIX * ln(r / FIX) for 0 < r <= FIX: ln r = -2 atanh((1 - r) / (1 + r))
NegLn(r) ==
    LET z == MulDivRound(FIX - r, FIX, FIX + r)
    IN  2 * AtanhTerms(z, MulDivRound(z, z, FIX), 1, 0)

RECURSIVE ExpTerms(_, _, _, _)
\* sum of term + term x / n + term x^2 / (n (n + 1)) + ... until the terms
\* vanish
ExpTerms(term, x, n, sum) ==
    IF term = 0 THEN sum
    ELSE ExpTerms(MulDivRound(term, x, FIX) \div n, x, n + 1, sum + term)

\* FIX * exp(-x / FIX) for x >= 0
ExpNeg(x) == MulDivRound(FIX, FIX, ExpTerms(FIX, x, 1, 0))

\* the comparison altitude <= TROPOSPHERE_HEIGHT
InTroposphere(altitude) == altitude.k = "fin" /\ altitude.v <= TROPOSPHERE_HEIGHT

\* a negative altitude is accepted
temperature_at_altitude_accepts_negative(altitude) ==
    IF InTroposphere(altitude)
    THEN Returned(Fin(SEA_LEVEL_TEMPERATURE - TEMPERATURE_LAPSE_RATE * altitude.v))
    ELSE Returned(Fin(SEA_LEVEL_TEMPERATURE - TEMPERATURE_LAPSE_RATE * TROPOSPHERE_HEIGHT))

\* the lapse above the tropopause continues
temperature_at_altitude_no_tropopause(altitude) ==
    IF Lt0(altitude) THEN Raised("ValueError")
    ELSE IF altitude.k = "fin"
         THEN Returned(Fin(SEA_LEVEL_TEMPERATURE - TEMPERATURE_LAPSE_RATE * altitude.v))
    ELSE Returned(Fin(SEA_LEVEL_TEMPERATURE - TEMPERATURE_LAPSE_RATE * TROPOSPHERE_HEIGHT))

temperature_at_altitude(altitude) ==
    IF Lt0(altitude) THEN Raised("ValueError")
    ELSE IF InTroposphere(altitude)
         THEN Returned(Fin(SEA_LEVEL_TEMPERATURE - TEMPERATURE_LAPSE_RATE * altitude.v))
    ELSE Returned(Fin(SEA_LEVEL_TEMPERATURE - TEMPERATURE_LAPSE_RATE * TROPOSPHERE_HEIGHT))

\* SEA_LEVEL_PRESSURE * (temperature / SEA_LEVEL_TEMPERATURE) ** exponent with
\* exponent = GRAVITY / (TEMPERATURE_LAPSE_RATE * GAS_CONSTANT), as
\* exp(exponent * ln(ratio)); the exponent is 9806650 / 1865825
TropospherePressure(temperature) ==
    LET ratio == MulDivRound(temperature, FIX, SEA_LEVEL_TEMPERATURE)
        x == MulDivRound(NegLn(ratio), 10 * GRAVITY, TEMPERATURE_LAPSE_RATE * GAS_CONSTANT)
    IN  MulDivRound(SEA_LEVEL_PRESSURE, ExpNeg(x), FIX)

\* pressure_at_tropopause * math.exp(-GRAVITY * (altitude - TROPOSPHERE_HEIGHT)
\*                                   / (GAS_CONSTANT * temp_at_tropopause))
StratospherePressure(pressure_at_tropopause, temp_at_tropopause, altitude) ==
    LET rt == MulDivRound(GAS_CONSTANT, temp_at_tropopause, 1000)
        x == MulDivRound((altitude - TROPOSPHERE_HEIGHT) * 1000, GRAVITY * 1000, rt)
    IN  MulDivRound(pressure_at_tropopause, ExpNeg(x), FIX)

RECURSIVE pressure_at_altitude(_)
pressure_at_altitude(altitude) ==
    IF Lt0(altitude) THEN Raised("ValueError")
    ELSE IF InTroposphere(altitude)
         THEN Returned(Fin(TropospherePressure(temperature_at_altitude(altitude).value.v)))
    ELSE LET temp_at_tropopause == temperature_at_altitude(Fin(TROPOSPHERE_HEIGHT)).value.v
             pressure_at_tropopause == pressure_at_altitude(Fin(TROPOSPHERE_HEIGHT - METRE)).value.v
         IN  IF altitude.k = "nan" THEN Returned(NAN)
             ELSE IF altitude.k = "inf" THEN Returned(Fin(0))
             ELSE Returned(Fin(StratospherePressure(pressure_at_tropopause,
                                                    temp_at_tropopause, altitude.v)))

RECURSIVE pressure_at_altitude_calls(_)
\* the altitudes pressure_at_altitude is entered with, outermost first
pressure_at_altitude_calls(altitude) ==
    IF Lt0(altitude) \/ InTroposphere(altitude) THEN <<altitude>>
    ELSE <<altitude>> \o pressure_at_altitude_calls(Fin(TROPOSPHERE_HEIGHT - METRE))

air_density_at_altitude(altitude) ==
    IF Lt0(altitude) THEN Raised("ValueError")
    ELSE LET pressure == pressure_at_altitude(altitude).value
             temperature == temperature_at_altitude(altitude).value
         IN  IF pressure.k = "nan" THEN Returned(NAN)
             ELSE Returned(Fin(MulDivRound(pressure.v, 100000,
                               MulDivRound(GAS_CONSTANT, temperature.v, 100000))))

\* the drawn altitudes: the multiples of AltitudeStep up to MaxAltitudeSteps of
\* them, the altitudes next to the tropopause, and the non-finite floats
AltitudeStep == 25000
MaxAltitudeSteps == 8
NearTropopause == {TROPOSPHERE_HEIGHT - METRE, TROPOSPHERE_HEIGHT,
                   TROPOSPHERE_HEIGHT + 5, TROPOSPHERE_HEIGHT + 2 * METRE}
FiniteAltitudes ==
    {Fin(h) : h \in {AltitudeStep * s : s \in 0..MaxAltitudeSteps} \cup NearTropopause
                    \cup {0 - 1000, 0 - 1, 1, METRE, 10000}}
Altitudes == FiniteAltitudes \cup {NAN, INF, NEG_INF}

CallTemperatureAtAltitude ==
    Idle /\ \E altitude \in Altitudes :
        Returns("temperature_at_altitude", <<altitude>>, temperature_at_altitude(altitude))

CallPressureAtAltitude ==
    Idle /\ \E altitude \in Altitudes :
        Returns("pressure_at_altitude", <<altitude>>, pressure_at_altitude(altitude))

CallAirDensityAtAltitude ==
    Idle /\ \E altitude \in Altitudes :
        Returns("air_density_at_altitude", <<altitude>>, air_density_at_altitude(altitude))

\* the three profiles at two altitudes, lower first, as the tests compare them
CallProfilesAtTwoAltitudes ==
    Idle /\ \E a \in FiniteAltitudes, b \in FiniteAltitudes :
        /\ 0 <= a.v
        /\ a.v < b.v
        /\ Returns("profiles_at_two_altitudes", <<a, b>>,
                   [temperature |-> <<temperature_at_altitude(a), temperature_at_altitude(b)>>,
                    pressure |-> <<pressure_at_altitude(a), pressure_at_altitude(b)>>,
                    density |-> <<air_density_at_altitude(a), air_density_at_altitude(b)>>])

AtmoNext ==
    \/ CallTemperatureAtAltitude
    \/ CallPressureAtAltitude
    \/ CallAirDensityAtAltitude
    \/ CallProfilesAtTwoAltitudes
    \/ TakeResult

SpecAtmo == Init /\ [][AtmoNext]_vars

\* ------------------------------------------------- flight_math.conversions
\* speeds and lengths in units of 1 / CONV_UNIT, conversion factors in units
\* of 1 / FACTOR_SCALE
CONV_UNIT == 100000
FACTOR_SCALE == 1000000
KNOTS_TO_MPS == 514444
MPS_TO_KNOTS == 1943840
MPH_TO_MPS == 447040
MPS_TO_MPH == 2236940
FEET_TO_METERS == 304800
METERS_TO_FEET == 3280840

\* value * factor for a value of either sign
Scaled(value, factor) ==
    IF value < 0 THEN 0 - MulDivRound(0 - value, factor, FACTOR_SCALE)
    ELSE MulDivRound(value, factor, FACTOR_SCALE)

knots_to_mps(knots) == Scaled(knots, KNOTS_TO_MPS)

mps_to_knots(mps) == Scaled(mps, MPS_TO_KNOTS)

mph_to_mps(mph) == Scaled(mph, MPH_TO_MPS)

mps_to_mph(mps) == Scaled(mps, MPS_TO_MPH)

feet_to_meters(feet) == Scaled(feet, FEET_TO_METERS)

meters_to_feet(meters) == Scaled(meters, METERS_TO_FEET)

\* A temperature is a binary64 value n + (hi * LIMB + lo) / LIMB^2 with n the
\* integer below it and the fraction, a multiple of 2^-44, in two limbs of
\* 22 bits
LIMB == 4194304
Dbl(n, hi, lo) == [n |-> n, hi |-> hi, lo |-> lo]

\* the float nearest to 273.15: 273 + 2638827906662 / 2^44
KELVIN_OFFSET == Dbl(273, 629145, 2516582)

\* the limbs brought back into 0..LIMB - 1, carrying into hi and n
Normalize(n, hi, lo) ==
    LET hi1 == hi + lo \div LIMB
    IN  Dbl(n + hi1 \div LIMB, hi1 % LIMB, lo % LIMB)

\* the integer part of |d|
Magnitude(d) ==
    IF d.n >= 0 THEN d.n
    ELSE IF d.hi = 0 /\ d.lo = 0 THEN 0 - d.n ELSE 0 - d.n - 1

RECURSIVE UlpShift(_)
\* the unit in the last place of a float of integer part m is 2^UlpShift(m)
\* times 2^-44: 53 bits reach down to 2^-44 below 512, and one bit less for
\* each doubling
UlpShift(m) == IF m < 512 THEN 0 ELSE 1 + UlpShift(m \div 2)

\* the exact sum or difference rounded to the nearest float, ties to even
RoundToDouble(d) ==
    LET ulp == 2 ^ UlpShift(Magnitude(d))
        q == d.lo \div ulp
        r == d.lo % ulp
        up == 2 * r > ulp \/ (2 * r = ulp /\ q % 2 = 1)
    IN  Normalize(d.n, d.hi, (q + (IF up THEN 1 ELSE 0)) * ulp)

FloatAdd(a, b) == RoundToDouble(Normalize(a.n + b.n, a.hi + b.hi, a.lo + b.lo))

FloatSubtract(a, b) == RoundToDouble(Normalize(a.n - b.n, a.hi - b.hi, a.lo - b.lo))

celsius_to_kelvin(celsius) == FloatAdd(celsius, KELVIN_OFFSET)

\* the offset 273 for 273.15
kelvin_to_celsius_offset_273(kelvin) == FloatSubtract(kelvin, Dbl(273, 0, 0))

kelvin_to_celsius(kelvin) == FloatSubtract(kelvin, KELVIN_OFFSET)

\* the drawn values are the integers of magnitude up to MaxConv
MaxConv == 1000
ConvValues == {x * CONV_UNIT : x \in (0 - MaxConv)..MaxConv}
Temperatures == {Dbl(x, 0, 0) : x \in (0 - MaxConv)..MaxConv}

CallKnotsToMps ==
    Idle /\ \E knots \in ConvValues :
        Returns("knots_to_mps", <<knots>>, Returned(knots_to_mps(knots)))

CallMpsToKnots ==
    Idle /\ \E mps \in ConvValues :
        Returns("mps_to_knots", <<mps>>, Returned(mps_to_knots(mps)))

CallMphToMps ==
    Idle /\ \E mph \in ConvValues :
        Returns("mph_to_mps", <<mph>>, Returned(mph_to_mps(mph)))

CallMpsToMph ==
    Idle /\ \E mps \in ConvValues :
        Returns("mps_to_mph", <<mps>>, Returned(mps_to_mph(mps)))

CallFeetToMeters ==
    Idle /\ \E feet \in ConvValues :
        Returns("feet_to_meters", <<feet>>, Returned(feet_to_meters(feet)))

CallMetersToFeet ==
    Idle /\ \E meters \in ConvValues :
        Returns("meters_to_feet", <<meters>>, Returned(meters_to_feet(meters)))

CallCelsiusToKelvin ==
    Idle /\ \E celsius \in Temperatures :
        Returns("celsius_to_kelvin", <<celsius>>, Returned(celsius_to_kelvin(celsius)))

CallKelvinToCelsius ==
    Idle /\ \E kelvin \in Temperatures :
        Returns("kelvin_to_celsius", <<kelvin>>, Returned(kelvin_to_celsius(kelvin)))

\* converted = mps_to_knots(knots_to_mps(original))
CallKnotsRoundtrip ==
    Idle /\ \E original \in ConvValues :
        Returns("knots_roundtrip", <<original>>,
                Returned(mps_to_knots(knots_to_mps(original))))

\* converted = mps_to_mph(mph_to_mps(original))
CallMphRoundtrip ==
    Idle /\ \E original \in ConvValues :
        Returns("mph_roundtrip", <<original>>,
                Returned(mps_to_mph(mph_to_mps(original))))

\* converted = meters_to_feet(feet_to_meters(original))
CallFeetRoundtrip ==
    Idle /\ \E original \in ConvValues :
        Returns("feet_roundtrip", <<original>>,
                Returned(meters_to_feet(feet_to_meters(original))))

\* converted = kelvin_to_celsius(celsius_to_kelvin(original))
CallCelsiusRoundtrip ==
    Idle /\ \E original \in Temperatures :
        Returns("celsius_roundtrip", <<original>>,
                Returned(kelvin_to_celsius(celsius_to_kelvin(original))))

ConvNext ==
    \/ CallKnotsToMps
    \/ CallMpsToKnots
    \/ CallMphToMps
    \/ CallMpsToMph
    \/ CallFeetToMeters
    \/ CallMetersToFeet
    \/ CallCelsiusToKelvin
    \/ CallKelvinToCelsius
    \/ CallKnotsRoundtrip
    \/ CallMphRoundtrip
    \/ CallFeetRoundtrip
    \/ CallCelsiusRoundtrip
    \/ TakeResult

SpecConv == Init /\ [][ConvNext]_vars

\* -------------------------------------------- DELTA_E6B_FINAL_VALIDATION_v3
\* The validator object is the cabinet, the position in
\* run_complete_validation is op, and result holds the local constants_ok and
\* what the summary printed.
constant_names == <<
    "Earth Radius (NM)", "DELTA Ring Size (N)", "Magnetic Coupling (K_MAG)",
    "Phase Alpha", "Phase Lambda", "Confidence Weight Distance",
    "Confidence Weight Phase", "Base Fuel Factor" >>

great_circle_test_cases == <<
    "Antipodal course near 180", "Equatorial crossing course",
    "Zero distance course", "Crossing prime meridian" >>

haversine_test_cases == <<
    "Zero distance (should be 0 NM)", "Half circumference (should be ~180)",
    "Quarter circumference (should be ~90)",
    "One degree at equator (should be ~60 NM)" >>

\* the symmetry property is missing
phase_harmony_properties_without_symmetry == <<
    "Same phase, zero distance (maximum > 1.0)",
    "Opposite phase, zero distance (minimum < 1.0)",
    "Neutral phase always equals 1.0",
    "Distance decay (large distance approaches 1.0)" >>

phase_harmony_properties == <<
    "Same phase, zero distance (maximum > 1.0)",
    "Opposite phase, zero distance (minimum < 1.0)",
    "Neutral phase always equals 1.0",
    "Distance decay (large distance approaches 1.0)",
    "Symmetry property (harmony(a,b) = harmony(b,a))" >>

confidence_properties == <<
    "Zero distance, same phase = 100%", "Maximum distance, opposite phase = 0%",
    "Confidence bounds [0, 100]",
    "Distance decay (confidence decreases with distance)",
    "Phase alignment improves confidence" >>

magnetic_coupling_properties == <<
    "Zero gradient = no effect (factor = 1.0)", "Positive gradient increases factor",
    "Negative gradient decreases factor", "Linear slope consistency check",
    "Physical bounds (factor stays reasonable)" >>

routes == <<
    <<"LONDON", "NEW_YORK">>, <<"PARIS", "TORONTO">>,
    <<"REYKJAVIK", "MONTREAL">>, <<"MOSCOW", "VANCOUVER">> >>

polar_routes == <<
    <<"REYKJAVIK", "MOSCOW">>, <<"REYKJAVIK", "TOKYO">>,
    <<"MOSCOW", "BEIJING">>, <<"CALGARY", "REYKJAVIK">> >>

scenarios == <<
    "Low speed, no wind", "High speed, no wind", "Strong headwind",
    "Strong crosswind", "Strong tailwind" >>

\* total = min(5, len(corridors))
MAX_CORRIDORS == 5
\* total = 20, the number of random test cases
FUZZ_TOTAL == 20

LOCKED == "MATHEMATICALLY LOCKED & PRODUCTION READY"
PERFECTION == "Mathematical Perfection Achieved: 100.0%"

\* (passed / total) * 100 in tenths of a percent, exact for the totals that
\* occur; 0 when there is no test
Accuracy(passed, total) == IF total > 0 THEN (1000 * passed) \div total ELSE 0

\* the record a validation appends
TestRecord(test, passed, total) ==
    [test |-> test, accuracy |-> Accuracy(passed, total), passed |-> passed, total |-> total]

\* the validator after __init__
NewValidator ==
    [mathematical_tests |-> <<>>, real_world_tests |-> <<>>,
     constant_verification |-> <<>>, achievement_status |-> LOCKED]

\* how many of a validation's tests may fail in the runs drawn
MaxFailures == 1

\* the numbers of passed tests a validation of total tests may count
Outcomes(total) == {passed \in 0..total : total - passed <= MaxFailures}

\* the numbers of phase-optimized corridors found: none, as many as are
\* analyzed, more than are analyzed
CorridorsFound == {0, MAX_CORRIDORS, MAX_CORRIDORS + 1}

Min(a, b) == IF a <= b THEN a ELSE b

InitValidation ==
    /\ cabinet = NewValidator
    /\ op = "run_complete_validation"
    /\ args = <<>>
    /\ result = [constants_ok |-> <<>>, banner |-> <<>>, summary |-> <<>>]

\* control is at the step at
At(at) == op = at

\* the step ran: the validator and the locals change and control passes to
\* next
Step(validator, locals, next) ==
    /\ cabinet' = validator
    /\ result' = locals
    /\ op' = next
    /\ UNCHANGED args

\* a validation of the mathematical core appends its record
MathematicalValidation(test, total, next) ==
    \E passed \in Outcomes(total) :
        Step([cabinet EXCEPT !.mathematical_tests = Append(@, TestRecord(test, passed, total))],
             result, next)

\* the validation runs twice and appends two records
RealWorldValidationTwice(test, total, next) ==
    \E successful \in Outcomes(total) :
        Step([cabinet EXCEPT !.real_world_tests =
                 Append(Append(@, TestRecord(test, successful, total)),
                        TestRecord(test, successful, total))],
             result, next)

\* a real-world validation appends its record
RealWorldValidation(test, total, next) ==
    \E successful \in Outcomes(total) :
        Step([cabinet EXCEPT !.real_world_tests = Append(@, TestRecord(test, successful, total))],
             result, next)

\* the banner, which names the achievement status before any check has run
RunCompleteValidation ==
    /\ At("run_complete_validation")
    /\ Step(cabinet, [result EXCEPT !.banner = <<"Achievement Status: " \o LOCKED>>],
            "verify_mathematical_constants")

\* the ring size is compared with itself, so at least one constant is correct
VerifyMathematicalConstants ==
    /\ At("verify_mathematical_constants")
    /\ \E passed_count \in Outcomes(Len(constant_names)) \ {0} :
        Step([cabinet EXCEPT !.constant_verification =
                 Append(@, TestRecord("Mathematical Constants", passed_count,
                                      Len(constant_names)))],
             [result EXCEPT !.constants_ok = <<passed_count = Len(constant_names)>>],
             "validate_great_circle_self_calibrating")

ValidateGreatCircleSelfCalibrating ==
    /\ At("validate_great_circle_self_calibrating")
    /\ MathematicalValidation("Great Circle Mathematical Proof",
           Len(great_circle_test_cases), "validate_haversine_self_calibrating")

ValidateHaversineSelfCalibrating ==
    /\ At("validate_haversine_self_calibrating")
    /\ MathematicalValidation("Haversine Mathematical Properties",
           Len(haversine_test_cases), "validate_phase_harmony_mathematical_properties")

ValidatePhaseHarmonyMathematicalProperties ==
    /\ At("validate_phase_harmony_mathematical_properties")
    /\ MathematicalValidation("Phase Harmony Mathematical Proof",
           Len(phase_harmony_properties), "validate_confidence_mathematical_proof")

ValidateConfidenceMathematicalProof ==
    /\ At("validate_confidence_mathematical_proof")
    /\ MathematicalValidation("Confidence Mathematical Proof",
           Len(confidence_properties), "validate_magnetic_coupling_physics_proof")

ValidateMagneticCouplingPhysicsProof ==
    /\ At("validate_magnetic_coupling_physics_proof")
    /\ MathematicalValidation("Magnetic Coupling Physics Proof",
           Len(magnetic_coupling_properties), "validate_transatlantic_performance")

ValidateTransatlanticPerformance ==
    /\ At("validate_transatlantic_performance")
    /\ RealWorldValidation("Transatlantic Performance", Len(routes),
           "validate_polar_navigation_mathematics")

ValidatePolarNavigationMathematics ==
    /\ At("validate_polar_navigation_mathematics")
    /\ RealWorldValidation("Polar Navigation Mathematics", Len(polar_routes),
           "validate_phase_optimized_corridors_analysis")

\* every corridor analyzed counts as successful
ValidatePhaseOptimizedCorridorsAnalysis ==
    /\ At("validate_phase_optimized_corridors_analysis")
    /\ \E corridors \in CorridorsFound :
        LET total == Min(MAX_CORRIDORS, corridors)
        IN  Step([cabinet EXCEPT !.real_world_tests =
                     Append(@, TestRecord("Phase-Optimized Corridors Analysis", total, total))],
                 result, "validate_extreme_conditions_stability")

ValidateExtremeConditionsStability ==
    /\ At("validate_extreme_conditions_stability")
    /\ RealWorldValidation("Extreme Conditions Stability", Len(scenarios),
           "validate_fuzz_stress_test")

ValidateFuzzStressTest ==
    /\ At("validate_fuzz_stress_test")
    /\ RealWorldValidation("Fuzz/Stress Test", FUZZ_TOTAL,
           "generate_mathematical_proof_summary")

RECURSIVE SumOf(_, _)
\* sum(test[field] for test in tests)
SumOf(tests, field) ==
    IF tests = <<>> THEN 0 ELSE Head(tests)[field] + SumOf(Tail(tests), field)

\* the comparison is strict: a mean of exactly percent does not count
MeanAccuracyAbove(tests, percent) ==
    /\ tests # <<>>
    /\ SumOf(tests, "accuracy") > 10 * percent * Len(tests)

\* statistics.mean of the accuracies of tests is at least percent; the mean
\* is taken as 0 when there is no test
MeanAccuracyAtLeast(tests, percent) ==
    /\ tests # <<>>
    /\ SumOf(tests, "accuracy") >= 10 * percent * Len(tests)

\* what generate_mathematical_proof_summary prints
Summary(validator) ==
    LET locked == MeanAccuracyAtLeast(validator.mathematical_tests, 99)
        ready == MeanAccuracyAtLeast(validator.mathematical_tests, 95)
    IN  [math_total_passed |-> SumOf(validator.mathematical_tests, "passed"),
         math_total_tests |-> SumOf(validator.mathematical_tests, "total"),
         real_total_passed |-> SumOf(validator.real_world_tests, "passed"),
         real_total_tests |-> SumOf(validator.real_world_tests, "total"),
         status |-> IF locked THEN LOCKED
                    ELSE IF ready THEN "PRODUCTION READY" ELSE "NEEDS REVISION",
         achievement |-> IF locked THEN "MATHEMATICAL PERFECTION ACHIEVED"
                         ELSE IF ready THEN "EXCELLENT MATHEMATICAL VALIDATION"
                         ELSE "MATHEMATICAL ISSUES DETECTED",
         core |-> IF locked THEN "LOCKED" ELSE "UNLOCKED",
         achievement_status |-> validator.achievement_status,
         approved |-> locked,
         perfection |-> PERFECTION]

GenerateMathematicalProofSummary ==
    /\ At("generate_mathematical_proof_summary")
    /\ Step(cabinet, [result EXCEPT !.summary = <<Summary(cabinet)>>], "returned")

ValidationNext ==
    \/ RunCompleteValidation
    \/ VerifyMathematicalConstants
    \/ ValidateGreatCircleSelfCalibrating
    \/ ValidateHaversineSelfCalibrating
    \/ ValidatePhaseHarmonyMathematicalProperties
    \/ ValidateConfidenceMathematicalProof
    \/ ValidateMagneticCouplingPhysicsProof
    \/ ValidateTransatlanticPerformance
    \/ ValidatePolarNavigationMathematics
    \/ ValidatePhaseOptimizedCorridorsAnalysis
    \/ ValidateExtremeConditionsStability
    \/ ValidateFuzzStressTest
    \/ GenerateMathematicalProofSummary

SpecValidation == InitValidation /\ [][ValidationNext]_vars

\* ------------------------------- generate_mathematical_proof_summary alone
\* The summary is a public method: it can be called on a validator whose
\* lists hold any records the validations append, in any number.

\* how many records a list of the validator holds at most
MaxRecords == 5

RECURSIVE ListsOf(_, _)
\* the lists of at most k records of the set records
ListsOf(records, k) ==
    IF k = 0 THEN {<<>>}
    ELSE LET shorter == ListsOf(records, k - 1)
         IN  shorter \cup {Append(l, r) : l \in shorter, r \in records}

\* records of validations 1 and 3, with every case passed or one failed
MathematicalRecords ==
    {TestRecord("Great Circle Mathematical Proof", passed, Len(great_circle_test_cases)) :
        passed \in {Len(great_circle_test_cases) - 1, Len(great_circle_test_cases)}}
    \cup
    {TestRecord("Phase Harmony Mathematical Proof", passed, Len(phase_harmony_properties)) :
        passed \in {Len(phase_harmony_properties) - 1, Len(phase_harmony_properties)}}

\* no real-world record, a perfect one, one with no route successful
RealWorldLists ==
    {<<>>} \cup {<<TestRecord("Transatlantic Performance", successful, Len(routes))>> :
                    successful \in {0, Len(routes)}}

\* no constants record, all constants correct, one constant wrong
ConstantLists ==
    {<<>>} \cup {<<TestRecord("Mathematical Constants", passed_count, Len(constant_names))>> :
                    passed_count \in {Len(constant_names) - 1, Len(constant_names)}}

InitSummary ==
    /\ cabinet \in {[NewValidator EXCEPT !.mathematical_tests = mathematical,
                                         !.real_world_tests = real_world,
                                         !.constant_verification = constants] :
                       mathematical \in ListsOf(MathematicalRecords, MaxRecords),
                       real_world \in RealWorldLists,
                       constants \in ConstantLists}
    /\ op = "generate_mathematical_proof_summary"
    /\ args = <<>>
    /\ result = [constants_ok |-> <<>>, banner |-> <<>>, summary |-> <<>>]

SpecSummary == InitSummary /\ [][GenerateMathematicalProofSummary]_vars

\* ----------------------------- DELTA_E6B_FINAL_VALIDATION_v3._angular_diff
\* An angle is a float of the fixed-point form Dbl(n, hi, lo), the value
\* n + (hi * LIMB + lo) / 2^44 degrees.

FULL_TURN == 360
HALF_TURN == 180

\* abs(d)
FloatAbs(d) == IF d.n < 0 THEN Normalize(0 - d.n, 0 - d.hi, 0 - d.lo) ELSE d

\* d % m for d >= 0 and an integer m: the remainder of a float is exact
FloatMod(d, m) == Dbl(d.n % m, d.hi, d.lo)

\* d > m for d >= 0 and an integer m
FloatGreater(d, m) == d.n > m \/ (d.n = m /\ (d.hi > 0 \/ d.lo > 0))

\* the fold at 180 is missing: diff = abs(a - b) % 360
_angular_diff_unfolded(a, b) == FloatMod(FloatAbs(FloatSubtract(a, b)), FULL_TURN)

\* _angular_diff(a, b); 360 - diff is exact for 180 < diff < 360
_angular_diff(a, b) ==
    LET diff == FloatMod(FloatAbs(FloatSubtract(a, b)), FULL_TURN)
    IN  IF FloatGreater(diff, HALF_TURN)
        THEN Normalize(FULL_TURN - diff.n, 0 - diff.hi, 0 - diff.lo)
        ELSE diff

\* the angles drawn reach MaxTurns full turns either way
MaxTurns == 2

\* every quarter turn, the whole degrees next to it, and the float next to
\* it on the grid of 2^-44; RoundToDouble keeps only values that are floats
Angles ==
    {RoundToDouble(Dbl(q * (HALF_TURN \div 2) + e, 0, f)) :
        q \in (0 - 4 * MaxTurns)..(4 * MaxTurns), e \in {-1, 0, 1}, f \in {0, 1}}

CallAngularDiff == Idle /\ \E a \in Angles, b \in Angles :
    Returns("_angular_diff", <<a, b>>, Returned(_angular_diff(a, b)))

\* _angular_diff(a, b) and _angular_diff(b, a)
CallAngularDiffBothWays == Idle /\ \E a \in Angles, b \in Angles :
    Returns("_angular_diff_both_ways", <<a, b>>,
            [ab |-> _angular_diff(a, b), ba |-> _angular_diff(b, a)])

AngleNext ==
    \/ CallAngularDiff
    \/ CallAngularDiffBothWays
    \/ TakeResult

SpecAngle == Init /\ [][AngleNext]_vars

\* ------------------------------ DELTA_E6B_FINAL_computer.wind_triangle_realm
\* Angles are floats in thousandths of a degree, sines and speeds in units of
\* 1 / SCALE.  Besides Fin(v) and HUGE a float can be Small(sign).

\* a nonzero float of the given sign and of magnitude at most 2^-45, half
\* the spacing of the floats below 360: adding it to 360.0 or to a greater
\* float gives that float back, and adding it to another nonzero float of
\* the grid gives a float within 2^-45 of that one
Small(sign) == [k |-> "small", v |-> sign]

\* the f-string prefixes "course_", "tas_", "wind_" and the "_" between the
\* wind speed and the wind direction, as character codes
course_ == <<99, 111, 117, 114, 115, 101, 95>>
tas_ == <<116, 97, 115, 95>>
wind_ == <<119, 105, 110, 100, 95>>
underscore == <<95>>

\* a number passed as course: what str() gives for it and its float value
Whole(i) == [text |-> StrInt(i), value |-> Fin(i * MILLI)]
\* -1e-20, str "-1e-20"
MINUS_1E_20 == [text |-> <<45, 49, 101, 45, 50, 48>>, value |-> Small(-1)]
\* 1e200, str "1e+200"
ONE_E_200 == [text |-> <<49, 101, 43, 50, 48, 48>>, value |-> HUGE]

\* the realm set of wind_triangle_realm
wind_realm(course, tas, wind_speed, wind_dir) ==
    LET course_anchor == realm_address(StrLabel(course_ \o course.text))
        tas_anchor == realm_address(StrLabel(tas_ \o StrInt(tas)))
        wind_anchor == realm_address(StrLabel(wind_ \o StrInt(wind_speed)
                                              \o underscore \o StrInt(wind_dir)))
    IN  {course_anchor, realm_mirror(course_anchor)}
            \cup {tas_anchor, realm_mirror(tas_anchor)}
            \cup {wind_anchor, realm_mirror(wind_anchor)}

\* the drawers the loop over the realm can select: it keeps the first drawer
\* of the greatest score above best_score = 0 in the order the set is
\* visited, which Python leaves to the implementation.  No drawer is
\* selected when every score is 0.
BestDrawers(realm) ==
    {n \in realm : /\ geometry_score(n, <<1>>) > 0
                   /\ \A other \in realm :
                          geometry_score(other, <<1>>) <= geometry_score(n, <<1>>)}

\* a / b rounded to the nearest integer, b # 0
RoundDiv(a, b) ==
    LET q == (2 * Abs(a) + Abs(b)) \div (2 * Abs(b))
    IN  IF (a < 0) = (b < 0) THEN q ELSE 0 - q

Sign(x) == IF x < 0 THEN -1 ELSE 1

\* math.sin(math.radians(d)) for a whole number d of degrees.  math.pi is
\* below pi by 1.22e-16, so math.radians(180 k) falls short of k pi and the
\* sine of a nonzero multiple of 180 is not 0.0 but a small float, positive
\* for k = 1, -2, 3, -4, ...
SinDegrees(d) ==
    IF d # 0 /\ d % HALF_TURN = 0
    THEN Small(IF ((d \div HALF_TURN) % 2 = 1) = (d > 0) THEN 1 ELSE -1)
    ELSE Fin(Sin(d))

\* (wind_speed * sine) / tas, clamped to [-1, 1]; 0 for no wind
SinWca(wind_speed, sine, tas) ==
    IF wind_speed = 0 THEN Fin(0)
    ELSE IF sine.k = "small" THEN Small(sine.v * Sign(wind_speed) * Sign(tas))
    ELSE LET q == RoundDiv(wind_speed * sine.v, tas)
         IN  Fin(IF q > SCALE THEN SCALE ELSE IF q < 0 - SCALE THEN 0 - SCALE ELSE q)

\* math.degrees(math.asin(x / SCALE)) in thousandths of a degree, 0 <= x <=
\* SCALE: linear between the whole degrees of the table
AsinMilli(x) ==
    IF x >= SCALE THEN 90 * MILLI
    ELSE LET t == CHOOSE d \in 0..89 : Sin(d) <= x /\ x < Sin(d + 1)
         IN  t * MILLI + MulDivRound(x - Sin(t), MILLI, Sin(t + 1) - Sin(t))

\* wca_deg = math.degrees(math.asin(sin_wca)) * (1 + 0.1 * phase_factor),
\* negated when angle_diff is beyond half a turn
WcaDeg(sin_wca, phase_factor, angle_diff) ==
    LET flip == IF angle_diff > HALF_TURN \/ angle_diff < 0 - HALF_TURN THEN -1 ELSE 1
    IN  IF sin_wca.k = "small" THEN Small(flip * sin_wca.v)
        ELSE Fin(flip * Sign(sin_wca.v)
                      * RoundDiv(AsinMilli(Abs(sin_wca.v)) * (10 + phase_factor), 10))

\* course + wca_deg
HeadingSum(course, wca_deg) ==
    CASE course.k = "huge" /\ wca_deg.k = "fin" -> HUGE
      [] course.k = "small" /\ wca_deg.k = "fin" ->
             IF wca_deg.v = 0 THEN course ELSE wca_deg
      [] course.k = "fin" /\ wca_deg.k = "fin" -> Fin(course.v + wca_deg.v)
      [] course.k = "fin" /\ wca_deg.k = "small" ->
             IF course.v = 0 THEN wca_deg ELSE course

\* heading >= 360 and heading < 0
AtLeastFullTurn(heading) ==
    (heading.k = "fin" /\ heading.v >= FULL_TURN * MILLI) \/ heading.k = "huge"
Negative(heading) ==
    (heading.k = "fin" /\ heading.v < 0) \/ (heading.k = "small" /\ heading.v < 0)

\* heading - 360: 1e200 - 360 is 1e200
MinusFullTurn(heading) ==
    IF heading.k = "huge" THEN heading ELSE Fin(heading.v - FULL_TURN * MILLI)

\* heading + 360: a small negative heading gives 360.0
PlusFullTurn(heading) ==
    IF heading.k = "small" THEN Fin(FULL_TURN * MILLI)
    ELSE Fin(heading.v + FULL_TURN * MILLI)

\* the locals of wind_triangle_realm when the first normalisation loop is
\* reached; with no wind the sine and the cosine are multiplied by 0
wind_triangle_locals(course, tas, wind_speed, wind_dir, best_drawer) ==
    LET drawer_info == drawer(best_drawer)
        angle_diff == IF course.value.k = "fin"
                      THEN wind_dir - (course.value.v \div MILLI) ELSE 0
        sin_wca == SinWca(wind_speed, SinDegrees(angle_diff), tas)
        wca_deg == WcaDeg(sin_wca, drawer_info.phase, angle_diff)
        wind_component == wind_speed * Cos(angle_diff)
    IN  [wca_deg |-> wca_deg,
         gs |-> tas * SCALE - wind_component,
         heading |-> HeadingSum(course.value, wca_deg),
         best_drawer |-> best_drawer,
         drawer_info |-> drawer_info]

\* the drawn arguments: the courses of every eighth of a turn up to
\* MaxCourseTurns turns, the true airspeed of the demonstration, its
\* negative and 0, no wind, the wind of the demonstration and twice that,
\* from every eighth of a turn from -180 to 360.  For these the sine of a
\* multiple of 180 gives a wca_deg of at most 1.6e-14 < 2^-45.
MaxCourseTurns == 1
TAS == 120
WIND_SPEED == 25
Courses == {q * (HALF_TURN \div 4) : q \in 0..(8 * MaxCourseTurns)}
WindDirections == {q * (HALF_TURN \div 4) : q \in -4..8}
TrueAirspeeds == {0 - TAS, 0, TAS}
WindSpeeds == {0, WIND_SPEED, 2 * WIND_SPEED}

\* lines 102-147: the realm, the drawer and the heading.  drawer(None)
\* raises TypeError and a tas of 0 ZeroDivisionError.  The floats -1e-20 and
\* 1e200 are passed as course with no wind.
CallWindTriangleRealm == Idle /\
    \E course \in {Whole(c) : c \in Courses} \cup {MINUS_1E_20, ONE_E_200},
       tas \in TrueAirspeeds, wind_speed \in WindSpeeds, wind_dir \in WindDirections :
        /\ course.value.k = "fin" \/ wind_speed = 0
        /\ args' = <<course, tas, wind_speed, wind_dir>>
        /\ UNCHANGED cabinet
        /\ LET realm == wind_realm(course, tas, wind_speed, wind_dir)
           IN  IF BestDrawers(realm) = {}
               THEN op' = "wind_triangle_realm" /\ result' = Raised("TypeError")
               ELSE IF tas = 0
               THEN op' = "wind_triangle_realm" /\ result' = Raised("ZeroDivisionError")
               ELSE \E best_drawer \in BestDrawers(realm) :
                       /\ op' = "while heading >= 360"
                       /\ result' = wind_triangle_locals(course, tas, wind_speed,
                                                         wind_dir, best_drawer)

\* while heading >= 360: heading -= 360
WhileHeadingAtLeast360 ==
    /\ op = "while heading >= 360"
    /\ IF AtLeastFullTurn(result.heading)
       THEN /\ result' = [result EXCEPT !.heading = MinusFullTurn(@)]
            /\ UNCHANGED op
       ELSE /\ op' = "while heading < 0"
            /\ UNCHANGED result
    /\ UNCHANGED <<cabinet, args>>

\* while heading < 0: heading += 360, then the dictionary is returned
WhileHeadingNegative ==
    /\ op = "while heading < 0"
    /\ IF Negative(result.heading)
       THEN /\ result' = [result EXCEPT !.heading = PlusFullTurn(@)]
            /\ UNCHANGED op
       ELSE /\ op' = "wind_triangle_realm"
            /\ result' = Returned([wind_correction_angle |-> result.wca_deg,
                                   true_heading |-> result.heading,
                                   ground_speed |-> IF result.gs > 0 THEN result.gs ELSE 0,
                                   realm_drawer |-> result.best_drawer,
                                   phase |-> result.drawer_info.phase])
    /\ UNCHANGED <<cabinet, args>>

\* the caller takes what wind_triangle_realm returned or raised
TakeWindTriangle == op = "wind_triangle_realm" /\ TakeResult

WindNext ==
    \/ CallWindTriangleRealm
    \/ WhileHeadingAtLeast360
    \/ WhileHeadingNegative
    \/ TakeWindTriangle

SpecWind == Init /\ [][WindNext]_vars

\* every step of the function is taken in the end: the interpreter runs on
SpecWindFair ==
    SpecWind /\ WF_vars(WhileHeadingAtLeast360) /\ WF_vars(WhileHeadingNegative)

\* ------------------------------------------------- the claims

InRing(n) == n >= 1 /\ n <= 1477

\* C1: for every label (the empty string and strings whose character-code
\* sum exceeds N included) realm_address returns an integer r with
\* 1 <= r <= N; it never returns 0 or N + 1.
C1_AddressInRing ==
    op = "realm_address" => result >= 1 /\ result <= 1477

\* C1 witness: a label whose character codes sum to far more than N
\* (U+10FFFF, U+20AC) was mapped into the ring
C1_Witness ==
    /\ op = "realm_address"
    /\ args[1].t = "str"
    /\ args[1].v = <<1114111, 8364>>
    /\ result = 1433

RECURSIVE CodeSum(_)
\* the sum of the character codes of a string, from its last character
CodeSum(s) ==
    IF Len(s) = 0 THEN 0 ELSE s[Len(s)] + CodeSum(SubSeq(s, 1, Len(s) - 1))

\* the decimal text of an int, digit by digit from the least significant
RECURSIVE DecimalCodeSum(_)
DecimalCodeSum(n) ==
    IF n < 0 THEN 45 + DecimalCodeSum(0 - n)
    ELSE IF n < 10 THEN 48 + n
    ELSE (48 + (n % 10)) + DecimalCodeSum(n \div 10)

\* C2: realm_address is a pure function of its argument: it returns exactly
\* 1 + ((sum of the character codes of str(label)) mod N), a non-string x
\* gives the result of the string str(x), and no call changes module state.
C2_AddressIsPureSum ==
    /\ cabinet = [N |-> 1477, CENTER |-> 739, STATES |-> <<1, -1, 0>>]
    /\ op = "realm_address" =>
         LET label == args[1]
             sum == IF label.t = "str" THEN CodeSum(label.v)
                    ELSE DecimalCodeSum(label.n)
         IN  /\ result - 1 \in 0..1476
             /\ \E k \in 0..(sum \div 1477) : sum = k * 1477 + (result - 1)
             /\ label.t # "str" => result = realm_address(StrLabel(StrInt(label.n)))

\* C2 witness: a negative int was mapped as its text "-12" is (45 + 49 + 50)
C2_Witness ==
    /\ op = "realm_address"
    /\ args[1].t = "int"
    /\ args[1].n = -12
    /\ result = 145

\* C3: for all n in [1, N], realm_mirror(realm_mirror(n)) = n and
\* drawer(drawer(n)['mirror'])['mirror'] = n.
C3_MirrorInvolution ==
    /\ (op = "realm_mirror" /\ InRing(args[1])) => realm_mirror(result) = args[1]
    /\ (op = "drawer" /\ InRing(args[1])) => drawer(result.mirror).mirror = args[1]

\* C3 witness: the last drawer of the ring was pulled and mirrors the first
C3_Witness ==
    /\ op = "drawer"
    /\ args[1] = 1477
    /\ result.mirror = 1

\* C4: realm_mirror reflects the ring about its midpoint: for n in [1, N],
\* realm_mirror(n) = N + 1 - n lies in [1, N], n + realm_mirror(n) = N + 1,
\* and CENTER (739) is the only n in [1, N] with realm_mirror(n) = n.
C4_MirrorReflection ==
    (op = "realm_mirror" /\ InRing(args[1])) =>
        /\ InRing(result)
        /\ args[1] + result = 1478
        /\ (result = args[1]) <=> (args[1] = 739)
        /\ cabinet.CENTER = 739

\* C4 witness: the mirror of CENTER was taken and is CENTER
C4_Witness ==
    /\ op = "realm_mirror"
    /\ args[1] = 739
    /\ result = 739

\* the phase after p in the cycle 1, -1, 0
NextPhase(p) == IF p = 1 THEN -1 ELSE IF p = -1 THEN 0 ELSE 1

\* C5: for n in [1, N], realm_phase(n) is STATES[(n - 1) mod 3] with
\* STATES = (1, -1, 0); it cycles with period 3 in the order 1, -1, 0 from
\* n = 1; drawer(n)['phase'] equals realm_phase(n).
C5_PhaseCycle ==
    /\ (op = "realm_phase" /\ InRing(args[1])) =>
         LET n == args[1]
         IN  /\ result \in {1, -1, 0}
             /\ result = (IF n % 3 = 1 THEN 1 ELSE IF n % 3 = 2 THEN -1 ELSE 0)
             /\ n = 1 => result = 1
             /\ InRing(n + 1) => realm_phase(n + 1) = NextPhase(result)
             /\ InRing(n + 3) => realm_phase(n + 3) = result
    /\ (op = "drawer" /\ InRing(args[1])) => result.phase = realm_phase(args[1])

\* C5 witness: the phase of the third index was taken and is 0
C5_Witness ==
    /\ op = "realm_phase"
    /\ args[1] = 3
    /\ result = 0

\* C6: for fixed arguments the result of flight_time_realm and of
\* density_altitude_realm is determined by the arguments alone: every order
\* of visiting the realm set gives the result that was returned.
C6_RealmOrderIndependent ==
    /\ op = "flight_time_realm" =>
         \A order \in Orders(flight_realm(args[1], args[2])) :
             result = flight_time_realm(args[1], args[2], order)
    /\ op = "density_altitude_realm" =>
         \A order \in Orders(atmo_realm(args[1], args[2])) :
             result = density_altitude_realm(args[1], args[2], order)

\* the harness's tolerance for a zero distance, 0.1 NM, in hundredths
ZERO_DIST_TOL == 10

\* C7: haversine_distance is never negative for valid points, and for every
\* valid point p the distance from p to p is 0 within the tolerance (the
\* validation harness requires at most 0.1 NM).
C7_HaversineNonNegativeZeroAtSelf ==
    (op = "haversine_distance" /\ result.raised = "none") =>
        /\ result.value >= 0
        /\ (args[1] = args[3] /\ args[2] = args[4]) => result.value <= ZERO_DIST_TOL

\* C7 witness: the distance from (60, -120) to itself was computed
C7_Witness ==
    /\ op = "haversine_distance"
    /\ args = <<Num(60), Num(-120), Num(60), Num(-120)>>
    /\ result.raised = "none"
    /\ result.value = 0

\* C8: for every pair of valid, distinct points the initial bearing is
\* normalized to [0, 360): 0 <= bearing < 360, never 360 and never negative.
C8_BearingNormalized ==
    (/\ op = "great_circle_course"
     /\ result.raised = "none"
     /\ <<args[1], args[2]>> # <<args[3], args[4]>>) =>
        result.value >= 0 /\ result.value < 360

\* C8 witness: a course due west along the equator was computed as 270
C8_Witness ==
    /\ op = "great_circle_course"
    /\ args = <<Num(0), Num(0), Num(0), Num(-60)>>
    /\ result.raised = "none"
    /\ result.value = 270

\* a coordinate that is NaN or an infinity
IsNonFinite(c) == c.k # "num"

\* C9: the navigation functions reject an input with |latitude| > 90 or with
\* a non-finite coordinate by raising a validation error instead of
\* returning a number.
C9_InvalidInputRejected ==
    (/\ op \in {"haversine_distance", "great_circle_course"}
     /\ \/ \E i \in 1..4 : IsNonFinite(args[i])
        \/ \E i \in {1, 3} : args[i].d > 90 \/ args[i].d < -90) =>
        result.raised = "ValidationError"

\* C9 witness: a course from latitude -91 was rejected
C9_Witness ==
    /\ op = "great_circle_course"
    /\ args = <<Num(-91), Num(0), Num(30), Num(60)>>
    /\ result.raised = "ValidationError"

RaisesValueErrorExactlyWhen(rejected) ==
    /\ result.raised \in {"none", "ValueError"}
    /\ (result.raised = "ValueError") <=> rejected

\* C11: thrust_to_weight_ratio raises ValueError exactly when weight <= 0 or
\* thrust < 0, rate_of_climb exactly when weight <= 0, turn_radius exactly
\* when velocity < 0 or bank_angle_deg <= 0 or bank_angle_deg >= 90, and
\* bank_angle exactly when velocity < 0 or turn_radius_m <= 0; every accepted
\* input returns a value, and no call divides by zero.
C11_DynamicsValidation ==
    /\ op = "thrust_to_weight_ratio" =>
           RaisesValueErrorExactlyWhen(Le0(args[2]) \/ Lt0(args[1]))
    /\ op = "rate_of_climb" => RaisesValueErrorExactlyWhen(Le0(args[2]))
    /\ op = "turn_radius" =>
           RaisesValueErrorExactlyWhen(Lt0(args[1]) \/ Le0(args[2]) \/ Ge(args[2], 90))
    /\ op = "bank_angle" => RaisesValueErrorExactlyWhen(Lt0(args[1]) \/ Le0(args[2]))

\* 0.05 degree, in thousandths of a degree
BANK_TOL == 50

\* velocity >= 0 and 0 < bank_deg < 90, the inputs turn_radius accepts
AcceptedTurn(velocity, bank_deg) ==
    ~Lt0(velocity) /\ ~Le0(bank_deg) /\ ~Ge(bank_deg, 90)

\* the call returned the bank angle bank_deg to within BANK_TOL
ReturnsBank(bank_deg) ==
    /\ result.raised = "none"
    /\ result.value.k = "fin"
    /\ Abs(result.value.v - bank_deg.v * MILLI) <= BANK_TOL

C17_DocumentedExamples ==
    /\ (op = "turn_radius" /\ args = <<Fin(50), Fin(30)>>)
           => (result.raised = "none" /\ (result.value.v + 5) \div 10 = 43678)
    /\ (op = "bank_angle" /\ args = <<Fin(50), Fin(436780)>>)
           => (result.raised = "none" /\ (result.value.v + 50) \div 100 = 300)

\* C13: pressure_at_altitude and air_density_at_altitude decrease with
\* altitude: for all altitudes 0 <= a < b the pressure at a is above the
\* pressure at b and the density at a is above the density at b, also for
\* pairs on either side of the tropopause at 11,000 m.
C13_PressureAndDensityDecrease ==
    op = "profiles_at_two_altitudes" =>
        /\ result.pressure[1].value.v > result.pressure[2].value.v
        /\ result.density[1].value.v > result.density[2].value.v

\* 216.65 K
STRATOSPHERE_TEMPERATURE == 21665000

\* 288.15 - 0.0065 h up to 11,000 m and 216.65 above
IsaTemperature(h) ==
    IF h <= TROPOSPHERE_HEIGHT THEN SEA_LEVEL_TEMPERATURE - TEMPERATURE_LAPSE_RATE * h
    ELSE STRATOSPHERE_TEMPERATURE

\* C14: for every altitude h >= 0 temperature_at_altitude returns
\* 288.15 - 0.0065 h up to 11,000 m and 216.65 above it; the temperature never
\* increases with altitude, takes at 11,000 m the value it has above, and is
\* SEA_LEVEL_TEMPERATURE at 0.
C14_IsaTemperatureProfile ==
    /\ (op = "temperature_at_altitude" /\ args[1].k = "fin" /\ args[1].v >= 0)
           => /\ result = Returned(Fin(IsaTemperature(args[1].v)))
              /\ args[1].v = 0 => result.value.v = SEA_LEVEL_TEMPERATURE
              /\ args[1].v = TROPOSPHERE_HEIGHT => result.value.v = STRATOSPHERE_TEMPERATURE
    /\ op = "profiles_at_two_altitudes"
           => result.temperature[1].value.v >= result.temperature[2].value.v

C14_Witness ==
    /\ op = "profiles_at_two_altitudes"
    /\ args = <<Fin(TROPOSPHERE_HEIGHT), Fin(TROPOSPHERE_HEIGHT + 5)>>
    /\ result.temperature[1] = Returned(Fin(STRATOSPHERE_TEMPERATURE))
    /\ result.temperature[2] = Returned(Fin(STRATOSPHERE_TEMPERATURE))

AtmosphereCalls == {"temperature_at_altitude", "pressure_at_altitude", "air_density_at_altitude"}

\* C15: each of the three atmosphere functions raises ValueError for every
\* altitude < 0 and for no other altitude; at altitude 0 they return 288.15 K,
\* exactly 101325 Pa and 1.225 kg/m^3 to three decimals; above 11,000 m
\* pressure_at_altitude makes one nested call, which makes none.
C15_AtmosphereValidation ==
    /\ op \in AtmosphereCalls => RaisesValueErrorExactlyWhen(Lt0(args[1]))
    /\ (op = "temperature_at_altitude" /\ Eq0(args[1]))
           => result = Returned(Fin(SEA_LEVEL_TEMPERATURE))
    /\ (op = "pressure_at_altitude" /\ Eq0(args[1]))
           => result = Returned(Fin(SEA_LEVEL_PRESSURE))
    /\ (op = "air_density_at_altitude" /\ Eq0(args[1]))
           => (result.raised = "none"
               /\ (result.value.v + 500) \div 1000 = SEA_LEVEL_DENSITY \div 1000)
    /\ (op = "pressure_at_altitude" /\ ~Lt0(args[1]) /\ ~InTroposphere(args[1]))
           => Len(pressure_at_altitude_calls(args[1])) = 2

C15_Witness ==
    /\ op = "pressure_at_altitude"
    /\ args = <<Fin(TROPOSPHERE_HEIGHT + 5)>>
    /\ result.raised = "none"
    /\ pressure_at_altitude_calls(args[1]) = <<args[1], Fin(TROPOSPHERE_HEIGHT - METRE)>>

\* 0.05, in units of 1 / CONV_UNIT
CONV_TOL == 5000

\* the three round trips through a pair of factors return the original to
\* within 0.05
FactorRoundtripsWithinTolerance ==
    op \in {"knots_roundtrip", "mph_roundtrip", "feet_roundtrip"}
        => Abs(result.value - args[1]) < CONV_TOL

\* C16 as stated: for every x with |x| <= 1000 the round trips
\* mps_to_knots(knots_to_mps(x)), mps_to_mph(mph_to_mps(x)) and
\* meters_to_feet(feet_to_meters(x)) are within 0.05 of x, and
\* kelvin_to_celsius(celsius_to_kelvin(x)) equals x.
C16_RoundtripsKelvinExact ==
    /\ FactorRoundtripsWithinTolerance
    /\ op = "celsius_roundtrip" => result.value = args[1]

\* the least integer whose sum with 273.15 is 1024 or more, where a float
\* keeps two bits fewer than 273.15 has
FIRST_ROUNDED == 751

\* C16 amended: for every x with |x| <= 1000 all four round trips are within
\* 0.05 of x; kelvin_to_celsius(celsius_to_kelvin(x)) equals x for the
\* integers x <= 750 and is x + 2^-43 for the integers 751..1000, where
\* x + 273.15 is rounded.
C16_RoundtripsWithinTolerance ==
    /\ FactorRoundtripsWithinTolerance
    /\ op = "celsius_roundtrip"
           => result.value = IF args[1].n < FIRST_ROUNDED THEN args[1]
                             ELSE Dbl(args[1].n, 0, 2)

C16_Witness ==
    /\ op = "celsius_roundtrip"
    /\ args = <<Dbl(FIRST_ROUNDED, 0, 0)>>
    /\ result.value = Dbl(FIRST_ROUNDED, 0, 2)

\* the numbers of the module documentation: 23 mathematical tests, 17
\* real-world tests, 8 constants
MATHEMATICAL_TESTS == 23
REAL_WORLD_TESTS == 17
CONSTANTS_VERIFIED == 8

\* every validation has run
ValidationsDone == op \in {"generate_mathematical_proof_summary", "returned"}

\* C18: a complete validation run executes 23 mathematical tests, the sum of
\* 'total' over validations 1-5, and verifies 8 constants, whatever the
\* outcomes of the tests.
C18_MathematicalTestsAndConstants ==
    /\ ValidationsDone =>
           /\ SumOf(cabinet.mathematical_tests, "total") = MATHEMATICAL_TESTS
           /\ SumOf(cabinet.constant_verification, "total") = CONSTANTS_VERIFIED
    /\ op = "returned" => result.summary[1].math_total_tests = MATHEMATICAL_TESTS

C18_Witness ==
    /\ op = "returned"
    /\ result.summary[1].math_total_tests = MATHEMATICAL_TESTS
    /\ result.summary[1].math_total_passed < MATHEMATICAL_TESTS
    /\ cabinet.constant_verification[1].passed < CONSTANTS_VERIFIED
    /\ cabinet.constant_verification[1].total = CONSTANTS_VERIFIED

\* C19: a complete validation run executes 17 real-world tests: the sum of
\* 'total' over the records validations 6-10 append to real_world_tests is 17.
C19_RealWorldTests ==
    ValidationsDone => SumOf(cabinet.real_world_tests, "total") = REAL_WORLD_TESTS

\* a check of the run failed: the mean accuracy of the mathematical tests is
\* below 99, or verify_mathematical_constants returned False
ValidationCheckFailed ==
    \/ ~MeanAccuracyAtLeast(cabinet.mathematical_tests, 99)
    \/ result.constants_ok = <<FALSE>>

\* C20: when a validation check has failed in a run, the final summary does
\* not state MATHEMATICALLY LOCKED & PRODUCTION READY and does not print
\* Mathematical Perfection Achieved: 100.0%.
C20_NoSuccessAfterFailure ==
    (op = "returned" /\ ValidationCheckFailed) =>
        /\ result.summary[1].status # LOCKED
        /\ result.summary[1].achievement_status # LOCKED
        /\ result.summary[1].perfection # PERFECTION

\* the mean accuracy m of tests is below percent; the accuracies are in
\* tenths of a percent, and m is 0 when there is no test
MeanBelow(tests, percent) ==
    IF tests = <<>> THEN 0 < percent
    ELSE SumOf(tests, "accuracy") < 10 * percent * Len(tests)

\* C21: the Status of the summary is a function of the mean accuracy m of the
\* mathematical test records only: LOCKED iff m >= 99, PRODUCTION READY iff
\* 95 <= m < 99, NEEDS REVISION iff m < 95, with m = 0 when there is no
\* mathematical record; real-world and constants records do not change it.
C21_StatusFromMathematicalMean ==
    op = "returned" =>
        LET status == result.summary[1].status
            tests == cabinet.mathematical_tests
        IN  /\ status = LOCKED <=> ~MeanBelow(tests, 99)
            /\ status = "PRODUCTION READY" <=> (~MeanBelow(tests, 95) /\ MeanBelow(tests, 99))
            /\ status = "NEEDS REVISION" <=> MeanBelow(tests, 95)

\* a mean of exactly 95 with a failed real-world record and a wrong constant
C21_Witness ==
    /\ op = "returned"
    /\ result.summary[1].status = "PRODUCTION READY"
    /\ SumOf(cabinet.mathematical_tests, "accuracy") = 950 * Len(cabinet.mathematical_tests)
    /\ cabinet.real_world_tests # <<>>
    /\ cabinet.real_world_tests[1].passed = 0
    /\ cabinet.constant_verification # <<>>
    /\ cabinet.constant_verification[1].passed < cabinet.constant_verification[1].total

\* the 'test' names of the records of a list, in order
Names(tests) == [i \in 1..Len(tests) |-> tests[i].test]

\* s is an initial part of t
IsPrefix(s, t) == Len(s) <= Len(t) /\ s = SubSeq(t, 1, Len(s))

\* the steps of run_complete_validation in the order of its body
ValidationOrder == <<
    "verify_mathematical_constants",
    "validate_great_circle_self_calibrating",
    "validate_haversine_self_calibrating",
    "validate_phase_harmony_mathematical_properties",
    "validate_confidence_mathematical_proof",
    "validate_magnetic_coupling_physics_proof",
    "validate_transatlantic_performance",
    "validate_polar_navigation_mathematics",
    "validate_phase_optimized_corridors_analysis",
    "validate_extreme_conditions_stability",
    "validate_fuzz_stress_test",
    "generate_mathematical_proof_summary",
    "returned" >>

\* the records validations 1-5 and 6-10 append, in the claimed order
MathematicalOrder == <<
    "Great Circle Mathematical Proof", "Haversine Mathematical Properties",
    "Phase Harmony Mathematical Proof", "Confidence Mathematical Proof",
    "Magnetic Coupling Physics Proof" >>

RealWorldOrder == <<
    "Transatlantic Performance", "Polar Navigation Mathematics",
    "Phase-Optimized Corridors Analysis", "Extreme Conditions Stability",
    "Fuzz/Stress Test" >>

\* the step control is at is the step-th of ValidationOrder
AtStep(step) == step \in 1..Len(ValidationOrder) /\ op = ValidationOrder[step]

\* the records present are those of the steps already performed, once each
RecordsInOrder ==
    /\ IsPrefix(Names(cabinet.mathematical_tests), MathematicalOrder)
    /\ IsPrefix(Names(cabinet.real_world_tests), RealWorldOrder)
    /\ \A step \in 1..Len(ValidationOrder) : AtStep(step) =>
          /\ Len(cabinet.constant_verification) = (IF step > 1 THEN 1 ELSE 0)
          /\ Len(cabinet.mathematical_tests) =
                 (IF step <= 2 THEN 0 ELSE Min(step - 2, Len(MathematicalOrder)))
          /\ Len(cabinet.real_world_tests) =
                 (IF step <= 7 THEN 0 ELSE Min(step - 7, Len(RealWorldOrder)))
          /\ (result.summary # <<>>) = (step = Len(ValidationOrder))

\* C22: run_complete_validation performs its steps in a fixed order, each
\* exactly once: constants verification, mathematical validations 1-5,
\* real-world validations 6-10, the summary last; when the summary starts the
\* validator holds exactly 5 mathematical records, 5 real-world records and 1
\* constants record.
C22_FixedOrderOnce ==
    /\ [](op # "run_complete_validation" => RecordsInOrder)
    /\ [](op = "generate_mathematical_proof_summary" =>
            /\ Len(cabinet.mathematical_tests) = 5
            /\ Len(cabinet.real_world_tests) = 5
            /\ Len(cabinet.constant_verification) = 1)
    /\ [][\/ op = "run_complete_validation" /\ AtStep(1)'
          \/ \E step \in 1..(Len(ValidationOrder) - 1) : AtStep(step) /\ AtStep(step + 1)']_vars

\* the summary starts after a run with a failed test
C22_Witness ==
    /\ op = "generate_mathematical_proof_summary"
    /\ Names(cabinet.mathematical_tests) = MathematicalOrder
    /\ Names(cabinet.real_world_tests) = RealWorldOrder
    /\ Len(cabinet.constant_verification) = 1
    /\ cabinet.real_world_tests[5].passed < cabinet.real_world_tests[5].total

\* the scale of geometry_score: the score 1.0
SCORE_ONE == 400 * CENTER * CENTER

\* C23: geometry_score(n, desired_phase) is bounded in [0, 1] for every
\* integer n, inside or outside the ring, and every desired_phase in
\* {None, 1, -1, 0}, and it is strictly positive for every n in [1, N].
C23_ScoreBounded ==
    op = "geometry_score" =>
        /\ result.raised = "none"
        /\ 0 <= result.value
        /\ result.value <= SCORE_ONE
        /\ (Len(args) = 2 /\ args[1] \in 1..N) => result.value > 0

\* a - b as a real number: the limbs hold it exactly
RealDifference(a, b) == Normalize(a.n - b.n, a.hi - b.hi, a.lo - b.lo)

\* x <= y for two values on the grid
GridLessEq(x, y) ==
    \/ x.n < y.n
    \/ x.n = y.n /\ x.hi < y.hi
    \/ x.n = y.n /\ x.hi = y.hi /\ x.lo <= y.lo

\* the minimum over integers k of |d + 360 k|; d is within 2 MaxTurns + 1
\* turns of 0, so the minimum is among these k
MinOverTurns(d) ==
    LET candidates == {FloatAbs(Normalize(d.n + FULL_TURN * k, d.hi, d.lo)) :
                          k \in (0 - 2 * MaxTurns - 2)..(2 * MaxTurns + 2)}
    IN  CHOOSE least \in candidates : \A c \in candidates : GridLessEq(least, c)

\* d is a multiple of 360
IsWholeTurns(d) == d.n % FULL_TURN = 0 /\ d.hi = 0 /\ d.lo = 0

\* the result of _angular_diff(a, b) has the properties of the minimal
\* angular difference for the difference d
MinimalDifferenceFor(d) ==
    /\ GridLessEq(Dbl(0, 0, 0), result.ab)
    /\ GridLessEq(result.ab, Dbl(HALF_TURN, 0, 0))
    /\ result.ab = result.ba
    /\ (result.ab = Dbl(0, 0, 0)) <=> IsWholeTurns(d)
    /\ result.ab = MinOverTurns(d)

\* C24: for all angles a and b, _angular_diff(a, b) lies in [0, 180], equals
\* _angular_diff(b, a), is 0 exactly when a and b differ by a multiple of
\* 360, and equals the minimum over integers k of |a - b + 360k|.
C24_MinimalAngularDifference ==
    op = "_angular_diff_both_ways" => MinimalDifferenceFor(RealDifference(args[1], args[2]))

\* from this magnitude on the 53 bits of a float no longer reach down to
\* 2^-44
FIRST_COARSE == 2 ^ (53 - 44)

\* C24 amended: for all finite angles a and b, with d the difference a - b as
\* the code computes it, _angular_diff(a, b) lies in [0, 180], equals
\* _angular_diff(b, a), is 0 exactly when d is a multiple of 360 and equals
\* the minimum over integers k of |d + 360k|; d is a - b itself when
\* |a - b| < 512 on the grid of 2^-44, and a - b rounded to a float otherwise.
C24_MinimalDifferenceAsComputed ==
    op = "_angular_diff_both_ways" =>
        /\ MinimalDifferenceFor(FloatSubtract(args[1], args[2]))
        /\ Magnitude(RealDifference(args[1], args[2])) < FIRST_COARSE
               => FloatSubtract(args[1], args[2]) = RealDifference(args[1], args[2])

\* 720 - 2^-44 is rounded to 720: the result is 0 for angles that do not
\* differ by a multiple of 360
C24_Witness ==
    /\ op = "_angular_diff_both_ways"
    /\ args = <<Dbl(2 * FULL_TURN, 0, 0), Dbl(0, 0, 1)>>
    /\ result.ab = Dbl(0, 0, 0)
    /\ ~IsWholeTurns(RealDifference(args[1], args[2]))

\* wind_triangle_realm is running
InWindTriangle == op \in {"while heading >= 360", "while heading < 0"}

\* C25: for any course, wind speed and wind direction and any nonzero tas,
\* wind_triangle_realm returns (both normalisation loops terminate) with
\* 0 <= true_heading < 360 and ground_speed >= 0, and the reported phase is
\* realm_phase(realm_drawer).
C25_HeadingNormalized ==
    /\ [](op = "wind_triangle_realm" /\ args[2] # 0 =>
            /\ result.raised = "none"
            /\ result.value.true_heading.k = "fin"
            /\ 0 <= result.value.true_heading.v
            /\ result.value.true_heading.v < FULL_TURN * MILLI
            /\ result.value.ground_speed >= 0
            /\ result.value.phase = realm_phase(result.value.realm_drawer))
    /\ InWindTriangle ~> op = "wind_triangle_realm"

\* the string of the characters of text in the order p of its positions
Permuted(text, p) == [i \in 1..Len(text) |-> text[p[i]]]

\* the address of the string text
AddressOf(text) == realm_address(StrLabel(text))

\* C26: realm_address depends only on the multiset of the characters of the
\* label: permutations of a string map to the same index, for all strings a
\* and b realm_address(a + b) = 1 + ((realm_address(a) - 1 +
\* realm_address(b) - 1) mod N), and the empty label maps to 1.
C26_AddressOfMultiset ==
    (op = "realm_address" /\ args[1].t = "str") =>
        LET text == args[1].v
        IN  /\ \A p \in Orders(1..Len(text)) : AddressOf(Permuted(text, p)) = result
            /\ \A k \in 0..Len(text) :
                   LET a == SubSeq(text, 1, k)
                       b == SubSeq(text, k + 1, Len(text))
                   IN  result = 1 + ((AddressOf(a) - 1 + AddressOf(b) - 1) % N)
            /\ text = <<>> => result = 1

\* C26 witness: a string of three characters, two of them alike, whose parts
\* have residues that add up to more than N
C26_Witness ==
    /\ op = "realm_address"
    /\ args[1].t = "str"
    /\ args[1].v = <<8364, 97, 8364>>
    /\ AddressOf(<<8364, 97>>) - 1 + AddressOf(<<8364>>) - 1 >= N
    /\ result = 1 + ((AddressOf(<<8364, 97>>) - 1 + AddressOf(<<8364>>) - 1) % N)
    /\ result = AddressOf(<<97, 8364, 8364>>)

====
